---- MODULE Spec2Model ----
(***************************************************************************)
(* Researcher Pro backend: the analysis job pipeline.                      *)
(*                                                                         *)
(* Two programs of the repository drive an analysis job:                   *)
(*   - the FastAPI application (app/main.py with app/api/v1/analysis.py),  *)
(*     which keeps job records in the in-memory dict `analyses`, persists  *)
(*     them to a JSON file and runs process_analysis as an asyncio task;   *)
(*   - ResearchService (app/services/research_service.py), which keeps     *)
(*     job rows in the SQL database and runs process_analysis with a       *)
(*     provider fallback.                                                  *)
(* They share no state (different stores), so a behaviour follows one of   *)
(* them; `proc` records which.                                             *)
(*                                                                         *)
(* Spec is the orchestration core: the creation of jobs and the steps of   *)
(* their runs, any number of them interleaved at the provider calls. The   *)
(* REST operations that edit or delete stored records (update_analysis,    *)
(* delete_analysis) are not steps of Spec.                                 *)
(*                                                                         *)
(* SpecHub is the websocket layer: the ConnectionManager of                *)
(* app/api/v1/websockets.py and of app/core/websocket.py with their        *)
(* endpoints, the sends of a broadcast interleaved with the other tasks.   *)
(* Neither run calls it (api/v1/analysis.py has no call; ResearchService   *)
(* calls notify_analysis_update, which no module defines), so it is a      *)
(* specification of its own; `events` records what the runs hand over.     *)
(* SpecHung adds peers that stop reading and the scheduling of the loop.   *)
(* SpecEcho is the endpoint of app/main.py with a client that sends text   *)
(* frames, under the scheduling of the loop. SpecPaths is the managers     *)
(* with websockets on the paths of two analyses.                           *)
(*                                                                         *)
(* SpecRest is the FastAPI application with all its request handlers       *)
(* (get_analysis, update_analysis, delete_analysis beside create_analysis) *)
(* and with restarts of the process, which reload the storage file.        *)
(*                                                                         *)
(* SpecLive is the runs under the scheduling of the loop, with provider     *)
(* calls that may never answer. SpecCrash is the runs with the process     *)
(* stopping at any point, inside a write of the storage file included.     *)
(*                                                                         *)
(* SpecReport and SpecTemplate apply ReportService.generate_report and     *)
(* TemplateService.get_template to the rows a database may hold.           *)
(* SpecCache is the calls of a function wrapped by cache_with_metrics      *)
(* (app/core/performance.py), interleaved at the wrapper's awaits.         *)
(*                                                                         *)
(* Time: datetime.utcnow() reads `now`; a provider call is a network       *)
(* request and takes at least one unit of the clock.                       *)
(*                                                                         *)
(* Conventions: a progress value is kept in hundredths (0.25 is 25); a     *)
(* Python string that the code builds by concatenation is a sequence of    *)
(* tokens; a dict is a function from its keys to its values; an Optional   *)
(* dict is the record [none, dict].                                        *)
(***************************************************************************)
EXTENDS Integers, Sequences, FiniteSets, TLC

VARIABLES
    proc,          \* the part of the program a behaviour exercises: "api"
                   \* (app/api/v1/analysis.py), "service" (ResearchService),
                   \* "endpoint" or "caller" (the websocket layer), "echo"
                   \* (main.py's endpoint with a talking client), "rest" (all
                   \* handlers of api/v1/analysis.py), "crash" (its runs with
                   \* the process stopping at any point), "report", "template",
                   \* "cache" (a function wrapped by cache_with_metrics)
    \* ---- app/api/v1/analysis.py
    analyses,      \* the keys of the module-level dict `analyses`
    analysis,      \* the Analysis object created for each id (the dict's value,
                   \* and the local `analysis` of the id's process_analysis task)
    storage,       \* the content of STORAGE_FILE, as last written by save_analyses
    current_id,    \* the module-level counter current_id
    pc,            \* position of each id's process_analysis task
    research_data, \* the local research_data of each id's task
    calls,         \* the provider calls each id's task has completed, in order
    status_seq,    \* the status values each id's record has taken, in order
    request,       \* the AnalysisCreate body each id was created from
    now,           \* the clock read by datetime.utcnow()
    response,      \* what the last request handler of the module returned
                   \* or raised
    issued,        \* the ids create_analysis has assigned, in order
    boots,         \* how often the application process was started again
    served,        \* how many requests the handlers of the module have served
    \* ---- app/services/report_service.py, app/services/template_service.py
    report,        \* what the last call of ReportService.generate_report gave
    templates,     \* the template rows of the database, by id
    heap,          \* the dict and list objects the rows and results refer to
    template_data, \* what the last call of TemplateService.get_template gave
    \* ---- app/core/performance.py
    cache,         \* the entries of the cache behind cache.get and cache.set
    wrapper,       \* the calls of a function wrapped by cache_with_metrics
    \* ---- app/services/research_service.py
    db,            \* the analysis rows of the database, by id
    run,           \* the invocations of ResearchService.process_analysis
    events,        \* the status events each id's transitions have handed to
                   \* the websocket layer (notify_analysis_update), in order
    \* ---- app/api/v1/websockets.py, app/core/websocket.py, app/main.py
    manager,       \* which module's ConnectionManager instance `manager` is
    active_connections, \* manager.active_connections: id -> list of websockets
    sock,          \* the websockets: their endpoint task, state and inbox
    cast           \* the calls of manager.broadcast_to_analysis

apiVars == <<analyses, analysis, storage, current_id, pc, research_data, calls,
             status_seq, request>>
restVars == <<response, issued, boots, served>>
docVars == <<report, templates, heap, template_data>>
cacheVars == <<cache, wrapper>>
serviceVars == <<db, run>>
hubVars == <<manager, active_connections, sock, cast>>
vars == <<proc, analyses, analysis, storage, current_id, pc, research_data, calls,
          status_seq, request, now, response, issued, boots, served, report, templates, heap,
          template_data, cache, wrapper, db, run, events,
          manager, active_connections, sock, cast>>

----------------------------------------------------------------------------
(* Bounds of the model *)

MaxJobs == 2        \* create_analysis requests accepted
MaxRows == 1        \* rows ResearchService.create_analysis inserts
MaxRuns == 2        \* invocations of ResearchService.process_analysis
MaxSockets == 2     \* websockets opened
MaxCasts == 1       \* calls of broadcast_to_analysis
MaxBoots == 1       \* restarts of the application process
MaxFrames == 2      \* text frames a websocket client sends
MaxRequests == 3    \* create, get, update and delete requests served
MaxCalls == 2       \* calls of a function wrapped by cache_with_metrics

----------------------------------------------------------------------------
(* Values *)

EmptyDict == [k \in {} |-> <<>>]

\* {**d, k: v}
Put(d, k, v) == [x \in (DOMAIN d) \cup {k} |-> IF x = k THEN v ELSE d[x]]

None == [none |-> TRUE, dict |-> EmptyDict]
Some(d) == [none |-> FALSE, dict |-> d]

\* `analysis.parameters or {}`: None and the empty dict both give {}
OrEmpty(p) == IF p.none THEN EmptyDict ELSE p.dict

\* the parameters a client may send with a creation request: omitted, empty,
\* a focus list, and a bag that already uses the keys the pipeline writes
ParameterChoices ==
    { None,
      Some(EmptyDict),
      Some(Put(EmptyDict, "focus_areas", <<"batteries">>)),
      Some(Put(Put(EmptyDict, "research_data", <<"stale">>), "error", <<"stale">>)) }

\* what the research provider may return (response.choices[0].message.content)
ResearchOutputs == { <<"ok">>, <<"report">> }
\* what the analysis provider may return (the parsed JSON object)
AnalysisOutputs == { <<"insights">> }
\* str(e) of the exception a provider client call may raise
ProviderMessages == { <<>>, <<"timeout">> }

\* (variant) the wrapper without the cause's message
ResearchPhaseFailedBare(msg) == <<"Research phase failed: ">>

\* AIService.get_initial_research: Exception(f"Research phase failed: {str(e)}")
ResearchPhaseFailed(msg) == <<"Research phase failed: ">> \o msg
\* AIService.analyze_data: Exception(f"Analysis phase failed: {str(e)}")
AnalysisPhaseFailed(msg) == <<"Analysis phase failed: ">> \o msg

----------------------------------------------------------------------------
(* app/api/v1/analysis.py: the record transformations *)

\* progress values the code assigns
ProgressPending == 0
ProgressResearching == 25
ProgressAnalyzing == 50
ProgressCompleted == 100

\* (variant) a record that is handed out as the run's first step leaves it
NewAnalysisStarted(id, req, t) ==
    [ id |-> id,
      research_topic |-> req.research_topic,
      parameters |-> req.parameters,
      status |-> "researching",
      progress |-> ProgressResearching,
      created_at |-> t,
      updated_at |-> t ]

\* create_analysis: Analysis(id=current_id, **analysis.dict(), status="pending", ...)
NewAnalysis(id, req, t) ==
    [ id |-> id,
      research_topic |-> req.research_topic,
      parameters |-> req.parameters,
      status |-> "pending",
      progress |-> ProgressPending,
      created_at |-> t,
      updated_at |-> t ]

\* process_analysis: "Update status to research phase"
ToResearching(a) ==
    [a EXCEPT !.status = "researching", !.progress = ProgressResearching]

\* process_analysis: "Update status to analysis phase"
ToAnalyzing(a) ==
    [a EXCEPT !.status = "analyzing", !.progress = ProgressAnalyzing]

\* (variant) the completion block without the refresh of updated_at
ToCompletedStale(a, rd, ar, t) ==
    [a EXCEPT !.parameters = Some(Put(Put(OrEmpty(a.parameters),
                                          "research_data", rd),
                                      "analysis_results", ar)),
              !.status = "completed",
              !.progress = ProgressCompleted]

\* process_analysis: "Update analysis with results"
ToCompleted(a, rd, ar, t) ==
    [a EXCEPT !.parameters = Some(Put(Put(OrEmpty(a.parameters),
                                          "research_data", rd),
                                      "analysis_results", ar)),
              !.status = "completed",
              !.progress = ProgressCompleted,
              !.updated_at = t]

\* (variant) a handler that puts the job back to pending for another attempt
ToFailedRequeued(a, e) ==
    [a EXCEPT !.status = "pending",
              !.parameters = Some(Put(OrEmpty(a.parameters), "error", e))]

\* (variant) a handler that also resets the progress
ToFailedResetProgress(a, e) ==
    [a EXCEPT !.status = "failed", !.progress = ProgressPending,
              !.parameters = Some(Put(OrEmpty(a.parameters), "error", e))]

\* (variant) a handler that replaces the parameters by the error alone
ToFailedOnlyError(a, e) ==
    [a EXCEPT !.status = "failed",
              !.parameters = Some(Put(EmptyDict, "error", e))]

\* process_analysis: the except handler
ToFailed(a, e) ==
    [a EXCEPT !.status = "failed",
              !.parameters = Some(Put(OrEmpty(a.parameters), "error", e))]

\* save_analyses: the whole dict is written to the file
save_analyses(keys, objs) == [k \in keys |-> objs[k]]

\* (variant) a research failure that is retried
AfterResearchRetry(ok) == IF ok THEN "analysis" ELSE "research"
\* (variant) a handler that re-raises after recording the failure
AfterResearchReraise(ok) == IF ok THEN "analysis" ELSE "raised"

\* where a task continues after a provider call: the except handler is the
\* last statement of process_analysis, and so is the completion block
AfterResearch(ok) == IF ok THEN "analysis" ELSE "done"
AfterAnalysis(ok) == "done"

----------------------------------------------------------------------------
(* Initial state: the module has just been imported, no storage file yet *)

\* the two modules that define a ConnectionManager and its instance `manager`
ManagerV1 == "app.api.v1.websockets"
ManagerCore == "app.core.websocket"

SocketIds == 1..MaxSockets
CastIds == 1..MaxCasts

\* a websocket no client has opened yet. pc is the position of the task that
\* serves it, id the analysis_id of its path, app the application_state of
\* the WebSocket object, client the state of the peer ("open", "gone": sends
\* to it raise, "hung": sends to it never return), inbox the frames the peer
\* has received, code the close code the server has sent (0: none), sent the
\* number of text frames the peer has sent, pending those the server has not
\* received yet, data the frame the endpoint is answering (0: none), left how
\* the call manager.disconnect(websocket, id) of its task ended ("": none)
NewSocket == [pc |-> "new", id |-> "", app |-> "connecting", client |-> "open",
              inbox |-> <<>>, code |-> 0, sent |-> 0, pending |-> <<>>,
              data |-> 0, left |-> ""]

\* a call of broadcast_to_analysis that has not been made. cur is the
\* connection of the send in progress, i the number of list items the for
\* loop has taken, orphan whether the list it iterates has been deleted from
\* active_connections, disconnected the local list of that name; first, ok,
\* failed and alone record the call: the list at the call, the connections
\* whose send returned, those whose send raised, and whether no other task
\* has changed the list since the call
IdleCast == [pc |-> "idle", id |-> "", cur |-> 0, i |-> 0, orphan |-> FALSE,
             disconnected |-> <<>>, first |-> <<>>, ok |-> <<>>,
             failed |-> <<>>, alone |-> TRUE]

\* ConnectionManager.__init__, before any client has connected
HubIdle ==
    /\ manager = ManagerCore
    /\ active_connections = <<>>
    /\ sock = [w \in SocketIds |-> NewSocket]
    /\ cast = [b \in CastIds |-> IdleCast]

\* generate_report and get_template have not been called; no template rows
NoCall == [call |-> <<>>, raised |-> "", value |-> <<>>]
DocIdle ==
    /\ report = NoCall
    /\ templates = <<>>
    /\ heap = <<>>
    /\ template_data = NoCall

\* a call of the wrapped function that has not been made: key is its cache
\* key, runs the number of times the wrapper has executed the function, hit
\* whether cache.get gave a value, value what the wrapper returned
IdleCall == [pc |-> "idle", key |-> 0, runs |-> 0, hit |-> FALSE, value |-> <<>>]

\* the cache is empty and no wrapped function has been called
CacheIdle ==
    /\ cache = <<>>
    /\ wrapper = [c \in 1..MaxCalls |-> IdleCall]

\* no request handler has returned yet
NoResponse == [op |-> "", id |-> 0, code |-> 0, detail |-> "", body |-> <<>>]

\* a handler returns `body`: FastAPI serialises it as the handler returns,
\* before any other task of the loop runs
Returned(op, id, body) ==
    [op |-> op, id |-> id, code |-> 200, detail |-> "", body |-> body]

\* the steps of app/api/v1/analysis.py belong to the FastAPI application,
\* with or without its edit, delete and restart steps
RunsApi == proc \in {"api", "rest", "crash"}

\* an invocation of ResearchService.process_analysis that has not been made:
\* wrote is the status values it has written, tried the provider calls it has
\* completed, http the status code of the HTTPException it raised (0: none)
IdleRun == [pc |-> "idle", id |-> 0, wrote |-> <<>>, tried |-> <<>>, http |-> 0]

Init ==
    /\ proc \in {"api", "service"}
    /\ analyses = {}
    /\ analysis = <<>>
    /\ storage = <<>>
    /\ current_id = 1
    /\ pc = <<>>
    /\ research_data = <<>>
    /\ calls = <<>>
    /\ status_seq = <<>>
    /\ request = <<>>
    /\ now = 0
    /\ response = NoResponse
    /\ issued = <<>>
    /\ boots = 0
    /\ served = 0
    /\ DocIdle
    /\ CacheIdle
    /\ db = <<>>
    /\ run = [r \in 1..MaxRuns |-> IdleRun]
    /\ events = <<>>
    /\ HubIdle

\* f with key k set to v (k may be new)
Set(f, k, v) == [x \in (DOMAIN f) \cup {k} |-> IF x = k THEN v ELSE f[x]]

\* (variant) a step that stores its record under the id assigned last, the
\* module-level current_id rather than the task's own analysis_id
StoreUnderLatest(id, a) ==
    LET key == IF id < current_id THEN current_id - 1 ELSE id
    IN /\ analysis' = Set(analysis, key, a)
       /\ analyses' = analyses \cup {key}
       /\ storage' = save_analyses(analyses \cup {key}, Set(analysis, key, a))
       /\ status_seq' = IF id \in DOMAIN status_seq /\ a.status = analysis[id].status
                        THEN status_seq
                        ELSE Set(status_seq, id,
                                 (IF id \in DOMAIN status_seq THEN status_seq[id] ELSE <<>>)
                                     \o <<a.status>>)

\* the body of one step of a task: the record is changed in place, stored
\* under its id again and the dict is saved
Store(id, a) ==
    /\ analysis' = Set(analysis, id, a)
    /\ analyses' = analyses \cup {id}
    /\ storage' = save_analyses(analyses \cup {id}, Set(analysis, id, a))
    /\ status_seq' = IF id \in DOMAIN status_seq /\ a.status = analysis[id].status
                     THEN status_seq
                     ELSE Set(status_seq, id,
                              (IF id \in DOMAIN status_seq THEN status_seq[id] ELSE <<>>)
                                  \o <<a.status>>)

\* POST /analyses: create_analysis
create_analysis(p) ==
    /\ RunsApi
    /\ current_id <= MaxJobs
    /\ Len(issued) < MaxJobs
    /\ served < MaxRequests
    /\ LET req == [research_topic |-> "EV battery market", parameters |-> p]
           a == NewAnalysis(current_id, req, now)
       IN /\ Store(current_id, a)
          /\ request' = Set(request, current_id, req)
          \* asyncio.create_task(process_analysis(current_id))
          /\ pc' = Set(pc, current_id, "start")
          /\ research_data' = Set(research_data, current_id, <<>>)
          /\ calls' = Set(calls, current_id, <<>>)
          \* return db_analysis
          /\ response' = Returned("create", current_id, <<a>>)
    /\ issued' = Append(issued, current_id)
    /\ served' = served + 1
    /\ current_id' = current_id + 1
    /\ UNCHANGED <<cacheVars, docVars, boots, proc, hubVars, events, now, serviceVars>>

\* process_analysis, from its start to the await of get_initial_research
StartResearch(id) ==
    /\ RunsApi
    /\ id \in DOMAIN pc /\ pc[id] = "start"
    /\ id \in analyses
    /\ Store(id, ToResearching(analysis[id]))
    /\ pc' = [pc EXCEPT ![id] = "research"]
    /\ UNCHANGED <<cacheVars, docVars, restVars, proc, hubVars, events, current_id, research_data, calls, request, now, serviceVars>>

\* get_initial_research returns: up to the await of analyze_data
ResearchReturns(id, out) ==
    /\ RunsApi
    /\ id \in DOMAIN pc /\ pc[id] = "research"
    /\ research_data' = [research_data EXCEPT ![id] = out]
    /\ calls' = [calls EXCEPT ![id] = Append(@,
                   [provider |-> "perplexity", input |-> <<>>, ok |-> TRUE, value |-> out])]
    /\ Store(id, ToAnalyzing(analysis[id]))
    /\ pc' = [pc EXCEPT ![id] = AfterResearch(TRUE)]
    /\ now' = now + 1
    /\ UNCHANGED <<cacheVars, docVars, restVars, proc, hubVars, events, current_id, request, serviceVars>>

\* get_initial_research raises: the except handler runs
ResearchRaises(id, msg) ==
    /\ RunsApi
    /\ id \in DOMAIN pc /\ pc[id] = "research"
    /\ calls' = [calls EXCEPT ![id] = Append(@,
                   [provider |-> "perplexity", input |-> <<>>, ok |-> FALSE, value |-> msg])]
    /\ Store(id, ToFailed(analysis[id], ResearchPhaseFailed(msg)))
    /\ pc' = [pc EXCEPT ![id] = AfterResearch(FALSE)]
    /\ now' = now + 1
    /\ UNCHANGED <<cacheVars, docVars, restVars, proc, hubVars, events, current_id, research_data, request, serviceVars>>

\* analyze_data returns: the completion block
AnalysisReturns(id, out) ==
    /\ RunsApi
    /\ id \in DOMAIN pc /\ pc[id] = "analysis"
    /\ calls' = [calls EXCEPT ![id] = Append(@,
                   [provider |-> "openai", input |-> research_data[id], ok |-> TRUE,
                    value |-> out])]
    /\ now' = now + 1
    /\ Store(id, ToCompleted(analysis[id], research_data[id], out, now + 1))
    /\ pc' = [pc EXCEPT ![id] = AfterAnalysis(TRUE)]
    /\ UNCHANGED <<cacheVars, docVars, restVars, proc, hubVars, events, current_id, research_data, request, serviceVars>>

\* analyze_data raises: the except handler runs
AnalysisRaises(id, msg) ==
    /\ RunsApi
    /\ id \in DOMAIN pc /\ pc[id] = "analysis"
    /\ calls' = [calls EXCEPT ![id] = Append(@,
                   [provider |-> "openai", input |-> research_data[id], ok |-> FALSE,
                    value |-> msg])]
    /\ now' = now + 1
    /\ Store(id, ToFailed(analysis[id], AnalysisPhaseFailed(msg)))
    /\ pc' = [pc EXCEPT ![id] = AfterAnalysis(FALSE)]
    /\ UNCHANGED <<cacheVars, docVars, restVars, proc, hubVars, events, current_id, research_data, request, serviceVars>>

JobIds == 1..MaxJobs

NextApi ==
    \/ \E p \in ParameterChoices : create_analysis(p)
    \/ \E id \in JobIds : StartResearch(id)
    \/ \E id \in JobIds, out \in ResearchOutputs : ResearchReturns(id, out)
    \/ \E id \in JobIds, msg \in ProviderMessages : ResearchRaises(id, msg)
    \/ \E id \in JobIds, out \in AnalysisOutputs : AnalysisReturns(id, out)
    \/ \E id \in JobIds, msg \in ProviderMessages : AnalysisRaises(id, msg)

----------------------------------------------------------------------------
(* app/services/research_service.py *)

\* the results a provider of ResearchService may return, and the str(e) of
\* the exception it may raise
ServiceOutputs == { "text", "ok" }
ServiceMessages == { "timeout" }

\* create_analysis: Analysis(user_id=user.id, query=query, status="pending");
\* results and error are unset (None is the empty sequence, a value v is <<v>>)
NewRow(q) == [query |-> q, status |-> "pending", results |-> <<>>, error |-> <<>>]

\* process_analysis: "Update status to processing"
RowProcessing(row) == [row EXCEPT !.status = "processing"]

\* (variant) a completion that forgets to store the results
RowCompletedNoResults(row, results) == [row EXCEPT !.status = "completed"]

\* process_analysis: "Update analysis with results"
RowCompleted(row, results) ==
    [row EXCEPT !.results = <<results>>, !.status = "completed"]

\* process_analysis: "Update analysis with error"
RowFailed(row, e) == [row EXCEPT !.status = "failed", !.error = <<e>>]

\* the try/except around analyze_with_perplexity: a failure of the first
\* provider leads to the call of analyze_with_openai
AfterPerplexity(ok) == IF ok THEN "returned" ELSE "openai"
\* (variant) a failure of the second provider is answered by calling it again
AfterOpenaiRetry(ok) == IF ok THEN "returned" ELSE "openai"
\* the outer except handler ends with `raise HTTPException(status_code=500, ...)`
AfterOpenai(ok) == IF ok THEN "returned" ELSE "raised"
\* `if not analysis: raise HTTPException(status_code=404, ...)`
AfterLookup(found) == IF found THEN "perplexity" ELSE "raised"

RowIds == 1..MaxRows
RunIds == 1..MaxRuns

\* the events handed over for id so far
Emitted(id) == IF id \in DOMAIN events THEN events[id] ELSE <<>>
\* notify_analysis_update(user_id, analysis_id, status, ...): the function is
\* imported from app.api.v1.websockets, which does not define it; it is
\* taken to hand one analysis_update event with the status to the websocket
\* layer, as the interface of the live-update transport describes
notify_analysis_update(ev, id, status) ==
    Set(ev, id, Append(IF id \in DOMAIN ev THEN ev[id] ELSE <<>>,
                       [type |-> "analysis_update", status |-> status]))

\* ResearchService.create_analysis
ServiceCreateAnalysis ==
    /\ proc = "service"
    /\ Len(db) < MaxRows
    /\ db' = Append(db, NewRow("EV battery market"))
    /\ events' = notify_analysis_update(events, Len(db) + 1,
                                         NewRow("EV battery market").status)
    /\ UNCHANGED <<cacheVars, docVars, restVars, proc, hubVars, apiVars, now, run>>

\* ResearchService.process_analysis(id), from the call to its first provider
\* call. get_analysis reads the row from the database: set_cache cannot
\* serialise an ORM object, so the cache never holds one.
ServiceStart(r, id) ==
    /\ proc = "service"
    /\ run[r].pc = "idle"
    /\ IF id \in DOMAIN db
       THEN /\ db' = [db EXCEPT ![id] = RowProcessing(@)]
            /\ run' = [run EXCEPT ![r] = [@ EXCEPT
                        !.pc = AfterLookup(TRUE), !.id = id,
                        !.wrote = <<RowProcessing(db[id]).status>>]]
            /\ events' = notify_analysis_update(events, id,
                                                 RowProcessing(db[id]).status)
       ELSE /\ run' = [run EXCEPT ![r] = [@ EXCEPT
                        !.pc = AfterLookup(FALSE), !.id = id, !.http = 404]]
            /\ UNCHANGED <<db, events>>
    /\ UNCHANGED <<cacheVars, docVars, restVars, proc, hubVars, apiVars, now>>

\* the completion block of process_analysis, then `return results`
ServiceComplete(r, provider, out, next) ==
    LET id == run[r].id IN
    /\ db' = [db EXCEPT ![id] = RowCompleted(@, out)]
    /\ run' = [run EXCEPT ![r] = [@ EXCEPT
                 !.pc = next,
                 !.wrote = Append(@, RowCompleted(db[id], out).status),
                 !.tried = Append(@, [provider |-> provider, ok |-> TRUE, value |-> out])]]
    /\ events' = notify_analysis_update(events, id, RowCompleted(db[id], out).status)

\* analyze_with_perplexity returns
PerplexityReturns(r, out) ==
    /\ proc = "service"
    /\ run[r].pc = "perplexity"
    /\ ServiceComplete(r, "perplexity", out, AfterPerplexity(TRUE))
    /\ now' = now + 1
    /\ UNCHANGED <<cacheVars, docVars, restVars, proc, hubVars, apiVars>>

\* analyze_with_perplexity raises: the inner handler falls back to OpenAI
PerplexityRaises(r, msg) ==
    /\ proc = "service"
    /\ run[r].pc = "perplexity"
    /\ run' = [run EXCEPT ![r] = [@ EXCEPT
                 !.pc = AfterPerplexity(FALSE),
                 !.tried = Append(@, [provider |-> "perplexity", ok |-> FALSE,
                                      value |-> msg])]]
    /\ now' = now + 1
    /\ UNCHANGED <<cacheVars, docVars, restVars, proc, hubVars, apiVars, db, events>>

\* analyze_with_openai returns
OpenaiReturns(r, out) ==
    /\ proc = "service"
    /\ run[r].pc = "openai"
    /\ ServiceComplete(r, "openai", out, AfterOpenai(TRUE))
    /\ now' = now + 1
    /\ UNCHANGED <<cacheVars, docVars, restVars, proc, hubVars, apiVars>>

\* analyze_with_openai raises: the outer handler records the failure and
\* raises HTTPException(500)
OpenaiRaises(r, msg) ==
    LET id == run[r].id IN
    /\ proc = "service"
    /\ run[r].pc = "openai"
    /\ db' = [db EXCEPT ![id] = RowFailed(@, msg)]
    /\ run' = [run EXCEPT ![r] = [@ EXCEPT
                 !.pc = AfterOpenai(FALSE),
                 !.wrote = Append(@, RowFailed(db[id], msg).status),
                 !.tried = Append(@, [provider |-> "openai", ok |-> FALSE,
                                      value |-> msg]),
                 !.http = IF AfterOpenai(FALSE) = "raised" THEN 500 ELSE 0]]
    /\ events' = notify_analysis_update(events, id, RowFailed(db[id], msg).status)
    /\ now' = now + 1
    /\ UNCHANGED <<cacheVars, docVars, restVars, proc, hubVars, apiVars>>

NextService ==
    \/ ServiceCreateAnalysis
    \/ \E r \in RunIds, id \in RowIds : ServiceStart(r, id)
    \/ \E r \in RunIds, out \in ServiceOutputs : PerplexityReturns(r, out)
    \/ \E r \in RunIds, msg \in ServiceMessages : PerplexityRaises(r, msg)
    \/ \E r \in RunIds, out \in ServiceOutputs : OpenaiReturns(r, out)
    \/ \E r \in RunIds, msg \in ServiceMessages : OpenaiRaises(r, msg)

----------------------------------------------------------------------------
(* The websocket layer: ConnectionManager of app/api/v1/websockets.py and of
   app/core/websocket.py, the endpoint /ws/{analysis_id} of setup_websockets
   and of main.py. One task serves each websocket; every `await` on a
   websocket is a point where the other tasks run. *)

AnalysisIds == { "42" }

\* the frames a peer receives: the initial status of connect / of main.py's
\* endpoint, and the message of the n-th broadcast call
ConnectionStatus(id) == [type |-> "connection_status", id |-> id, n |-> 0]
Message(id, b) == [type |-> "analysis_update", id |-> id, n |-> b]

\* Python list operations: `x in l`, l.remove(x) for an x in l
Contains(l, x) == \E k \in DOMAIN l : l[k] = x
IndexOf(l, x) == CHOOSE k \in DOMAIN l : l[k] = x /\ \A j \in 1..(k - 1) : l[j] # x
Remove(l, x) == [k \in 1..(Len(l) - 1) |->
                    IF k < IndexOf(l, x) THEN l[k] ELSE l[k + 1]]
\* `del d[k]`
Drop(d, k) == [x \in (DOMAIN d) \ {k} |-> d[x]]
\* d[k], the empty list when k is no key of d
Listed(d, k) == IF k \in DOMAIN d THEN d[k] ELSE <<>>

\* (variant) a connect that always starts the id's list anew
SubscribeAnew(ac, w, id) == Set(ac, id, <<w>>)

\* (variant) a hub that keeps the websockets of all ids in every list
SubscribeShared(ac, w, id) ==
    [x \in (DOMAIN ac) \cup {id} |-> Append(Listed(ac, x), w)]

\* connect: `if analysis_id not in self.active_connections: ... = []`, then
\* `.append(websocket)`
Subscribe(ac, w, id) == Set(ac, id, Append(Listed(ac, id), w))

\* (variant) a disconnect that leaves the emptied list in the dict
disconnectKeepEntry(ac, w, id) ==
    IF id \in DOMAIN ac /\ Contains(ac[id], w)
    THEN [ac EXCEPT ![id] = Remove(@, w)]
    ELSE ac

\* ConnectionManager.disconnect, its effect on active_connections: the
\* websocket is removed from the id's list and an emptied list is deleted;
\* list.remove raises ValueError for a websocket that is not in the list,
\* before anything is changed
disconnect(ac, w, id) ==
    IF id \in DOMAIN ac /\ Contains(ac[id], w)
    THEN IF Remove(ac[id], w) = <<>>
         THEN Drop(ac, id)
         ELSE [ac EXCEPT ![id] = Remove(@, w)]
    ELSE ac

\* whether that ValueError reaches the caller of disconnect: the manager of
\* api/v1/websockets.py catches it, the manager of core/websocket.py does not
DisconnectRaises(ac, w, id) ==
    manager = ManagerCore /\ id \in DOMAIN ac /\ ~Contains(ac[id], w)

\* how a call of manager.disconnect(w, id) ends
Left(ac, w, id) == IF DisconnectRaises(ac, w, id) THEN "raised" ELSE "returned"

\* WebSocket.send_json / send_text on websocket w: it returns when the
\* application side is connected and the peer reads, it raises when the
\* application has closed the websocket or the peer is gone, and it does
\* neither while the peer is hung
SendReturns(w) == sock[w].app = "connected" /\ sock[w].client = "open"
SendRaises(w) == sock[w].app # "connected" \/ sock[w].client = "gone"

\* the calls of broadcast_to_analysis as another task's change of
\* active_connections (to ac) leaves them: a call whose list was changed is
\* no longer alone, a call whose list was deleted iterates an orphaned list
Others(ac, self) ==
    [b \in CastIds |->
        IF /\ b # self
           /\ cast[b].pc = "sending"
           /\ Listed(ac, cast[b].id) # Listed(active_connections, cast[b].id)
        THEN [cast[b] EXCEPT !.alone = FALSE,
                             !.orphan = @ \/ cast[b].id \notin DOMAIN ac]
        ELSE cast[b]]

\* the websocket layer is exercised through the module's websocket_endpoint
\* ("endpoint": main.py for core/websocket.py, setup_websockets for
\* api/v1/websockets.py) or by other code that calls the manager ("caller")
UsesHub == proc \in {"endpoint", "caller", "echo"}
\* manager.connect receives a websocket that has not been accepted: main.py's
\* endpoint and other callers pass one, setup_websockets' endpoint does not
PassesUnaccepted == proc = "caller" \/ manager = ManagerCore

\* manager.connect(websocket, analysis_id) on a websocket that has not been
\* accepted, up to the send of the initial status: accept returns, the
\* websocket is appended to the id's list, and send_json is awaited (by
\* connect itself in api/v1/websockets.py, by the endpoint in main.py)
ConnectAccepts(w, id) ==
    /\ UsesHub
    /\ PassesUnaccepted
    /\ sock[w].pc = "new"
    /\ \A v \in 1..(w - 1) : sock[v].pc # "new"
    /\ active_connections' = Subscribe(active_connections, w, id)
    /\ sock' = [sock EXCEPT ![w] = [@ EXCEPT
                  !.pc = "greeting", !.id = id, !.app = "connected"]]
    /\ cast' = Others(active_connections', 0)
    /\ UNCHANGED <<cacheVars, docVars, restVars, proc, apiVars, now, serviceVars, events, manager>>

\* manager.connect when accept raises (the peer went away during the
\* handshake). api/v1/websockets.py: connect returns False. main.py: the
\* outer handler calls manager.disconnect for a websocket that is in no list.
ConnectRefused(w, id) ==
    /\ UsesHub
    /\ PassesUnaccepted
    /\ sock[w].pc = "new"
    /\ \A v \in 1..(w - 1) : sock[v].pc # "new"
    /\ sock' = [sock EXCEPT ![w] = [@ EXCEPT
                  !.pc = IF manager = ManagerV1 THEN "refused"
                         ELSE IF DisconnectRaises(active_connections, w, id)
                              THEN "crashed" ELSE "returned",
                  !.left = IF manager = ManagerV1 THEN @
                           ELSE Left(active_connections, w, id),
                  !.id = id, !.app = "disconnected", !.client = "gone"]]
    /\ UNCHANGED <<cacheVars, docVars, restVars, proc, apiVars, now, serviceVars, events, manager,
                   active_connections, cast>>

\* the send of the initial status returns: connect returns True
\* (api/v1/websockets.py), the endpoint enters its receive loop (main.py)
Greet(w) ==
    /\ UsesHub
    /\ sock[w].pc = "greeting"
    /\ SendReturns(w)
    /\ sock' = [sock EXCEPT ![w] = [@ EXCEPT
                  !.pc = IF manager = ManagerV1 THEN "connected" ELSE "receiving",
                  !.inbox = Append(@, ConnectionStatus(sock[w].id))]]
    /\ UNCHANGED <<cacheVars, docVars, restVars, proc, apiVars, now, serviceVars, events, manager,
                   active_connections, cast>>

\* the send of the initial status raises. api/v1/websockets.py: connect
\* returns False and leaves the websocket in the list. main.py: the outer
\* handler closes the websocket with 1011 and then calls manager.disconnect;
\* closes tells whether that close returns: it raises on a websocket the
\* application has already closed, and may do either on one whose peer is
\* gone; a raising close leaves the endpoint before manager.disconnect.
GreetFails(w, closes) ==
    /\ UsesHub
    /\ sock[w].pc = "greeting"
    /\ SendRaises(w)
    /\ closes => sock[w].app = "connected"
    /\ IF manager = ManagerV1
       THEN /\ closes
            /\ sock' = [sock EXCEPT ![w] = [@ EXCEPT !.pc = "refused"]]
            /\ UNCHANGED <<active_connections, cast>>
       ELSE IF closes
       THEN /\ sock' = [sock EXCEPT ![w] = [@ EXCEPT
                          !.pc = "returned", !.app = "disconnected",
                          !.client = "gone",
                          !.left = Left(active_connections, w, sock[w].id)]]
            /\ active_connections' = disconnect(active_connections, w, sock[w].id)
            /\ cast' = Others(active_connections', 0)
       ELSE /\ sock' = [sock EXCEPT ![w] = [@ EXCEPT !.pc = "crashed"]]
            /\ UNCHANGED <<active_connections, cast>>
    /\ UNCHANGED <<cacheVars, docVars, restVars, proc, apiVars, now, serviceVars, events, manager>>

\* main.py, the receive loop: receive_text raises WebSocketDisconnect (the
\* peer is gone, or the application has closed the websocket), the handler
\* calls manager.disconnect and the endpoint returns, which ends the
\* connection
ReceiveDisconnect(w) ==
    /\ UsesHub
    /\ manager = ManagerCore
    /\ sock[w].pc = "receiving"
    /\ sock[w].client = "gone" \/ sock[w].app = "disconnected"
    /\ sock' = [sock EXCEPT ![w] = [@ EXCEPT
                  !.pc = IF DisconnectRaises(active_connections, w, sock[w].id)
                         THEN "crashed" ELSE "returned",
                  !.left = Left(active_connections, w, sock[w].id),
                  !.app = "disconnected", !.client = "gone",
                  !.pending = <<>>]]
    /\ active_connections' = disconnect(active_connections, w, sock[w].id)
    /\ cast' = Others(active_connections', 0)
    /\ UNCHANGED <<cacheVars, docVars, restVars, proc, apiVars, now, serviceVars, events, manager>>

\* manager.disconnect(websocket, analysis_id) of api/v1/websockets.py, called
\* by the code that called connect, whatever connect returned, once the peer
\* is gone (as the receive loop of setup_websockets calls it)
Disconnect(w) ==
    /\ UsesHub
    /\ manager = ManagerV1
    /\ sock[w].pc \in {"connected", "refused"}
    /\ sock[w].client = "gone"
    /\ sock' = [sock EXCEPT ![w] = [@ EXCEPT
                  !.pc = "returned",
                  !.left = Left(active_connections, w, sock[w].id)]]
    /\ active_connections' = disconnect(active_connections, w, sock[w].id)
    /\ cast' = Others(active_connections', 0)
    /\ UNCHANGED <<cacheVars, docVars, restVars, proc, apiVars, now, serviceVars, events, manager>>

\* websocket_endpoint of setup_websockets, up to its close: the endpoint
\* accepts the websocket (line 76) and then calls manager.connect, whose own
\* accept raises on the accepted websocket (an accepted WebSocket takes only
\* send and close), so connect returns False without registering it
EndpointAccepts(w, id) ==
    /\ UsesHub
    /\ ~PassesUnaccepted
    /\ sock[w].pc = "new"
    /\ \A v \in 1..(w - 1) : sock[v].pc # "new"
    /\ sock' = [sock EXCEPT ![w] = [@ EXCEPT
                  !.pc = "closing", !.id = id, !.app = "connected"]]
    /\ UNCHANGED <<cacheVars, docVars, restVars, proc, apiVars, now, serviceVars, events, manager,
                   active_connections, cast>>

\* websocket_endpoint of setup_websockets, `if not connected`: close(1011)
\* and return; a failure of the close ends in the outer handler, whose
\* manager.disconnect finds nothing to remove
EndpointCloses(w) ==
    /\ UsesHub
    /\ manager = ManagerV1
    /\ sock[w].pc = "closing"
    /\ sock' = [sock EXCEPT ![w] = [@ EXCEPT
                  !.pc = "returned", !.app = "disconnected",
                  !.code = IF sock[w].client = "open" THEN 1011 ELSE 0]]
    /\ UNCHANGED <<cacheVars, docVars, restVars, proc, apiVars, now, serviceVars, events, manager,
                   active_connections, cast>>

\* the peer of a websocket goes away
PeerLeaves(w) ==
    /\ UsesHub
    /\ sock[w].pc \in {"greeting", "receiving", "echoing", "connected", "closing"}
    /\ sock[w].client = "open"
    /\ sock' = [sock EXCEPT ![w] = [@ EXCEPT !.client = "gone"]]
    /\ UNCHANGED <<cacheVars, docVars, restVars, proc, apiVars, now, serviceVars, events, manager,
                   active_connections, cast>>

\* the peer of a websocket stops reading: sends to it no longer return
PeerHangs(w) ==
    /\ UsesHub
    /\ sock[w].pc \in {"greeting", "receiving", "connected"}
    /\ sock[w].client = "open"
    /\ sock' = [sock EXCEPT ![w] = [@ EXCEPT !.client = "hung"]]
    /\ UNCHANGED <<cacheVars, docVars, restVars, proc, apiVars, now, serviceVars, events, manager,
                   active_connections, cast>>

\* (variant) a broadcast that forgets the websockets whose send raised
PruneNone(ac, ds, id) == ac

\* broadcast_to_analysis of api/v1/websockets.py, its second loop:
\* `for connection in disconnected: self.disconnect(connection, analysis_id)`
RECURSIVE Prune(_, _, _)
Prune(ac, ds, id) ==
    IF ds = <<>> THEN ac ELSE Prune(disconnect(ac, Head(ds), id), Tail(ds), id)

\* the for loop of broadcast_to_analysis after the send to c.cur is over:
\* the list iterator takes the item at its index from the list as it is
\* now, and the next send is awaited; when the list has no such item the
\* loop ends, api/v1/websockets.py disconnects the collected websockets, and
\* the call returns. The result is the call's record and active_connections.
Advance(c) ==
    LET list == IF c.orphan THEN <<>> ELSE Listed(active_connections, c.id)
    IN  IF c.i < Len(list)
        THEN [call |-> [c EXCEPT !.cur = list[c.i + 1], !.i = c.i + 1],
              ac |-> active_connections]
        ELSE [call |-> [c EXCEPT !.pc = "returned", !.cur = 0, !.i = 0,
                                 !.orphan = FALSE],
              ac |-> IF manager = ManagerV1
                     THEN Prune(active_connections, c.disconnected, c.id)
                     ELSE active_connections]

\* broadcast_to_analysis(analysis_id, message) is called: without a list for
\* the id it returns at once, otherwise the send to the first connection of
\* the list is awaited. The calls are made one after another: one call is in
\* progress at a time, interleaved with the tasks of the websockets
CastStart(b, id) ==
    /\ UsesHub
    /\ cast[b].pc = "idle"
    /\ \A a \in 1..(b - 1) : cast[a].pc \in {"returned", "raised"}
    /\ cast' = [cast EXCEPT ![b] =
                  IF Listed(active_connections, id) = <<>>
                  THEN [@ EXCEPT !.pc = "returned", !.id = id]
                  ELSE [@ EXCEPT !.pc = "sending", !.id = id,
                                 !.cur = active_connections[id][1], !.i = 1,
                                 !.first = active_connections[id]]]
    /\ UNCHANGED <<cacheVars, docVars, restVars, proc, apiVars, now, serviceVars, events, manager,
                   active_connections, sock>>

\* the send in progress returns: the peer has the message
CastDelivers(b) ==
    LET c == cast[b]
        next == Advance([c EXCEPT !.ok = Append(@, c.cur)])
    IN  /\ UsesHub
        /\ c.pc = "sending"
        /\ SendReturns(c.cur)
        /\ sock' = [sock EXCEPT ![c.cur] = [@ EXCEPT
                      !.inbox = Append(@, Message(c.id, b))]]
        /\ active_connections' = next.ac
        /\ cast' = [Others(next.ac, b) EXCEPT ![b] = next.call]
        /\ UNCHANGED <<cacheVars, docVars, restVars, proc, apiVars, now, serviceVars, events, manager>>

\* the send in progress raises. api/v1/websockets.py appends the connection
\* to `disconnected` and goes on. core/websocket.py awaits connection.close()
\* in its bare except; closes tells whether that close returns: it raises on
\* a websocket the application has already closed, and may do either on one
\* whose peer is gone; a raising close leaves broadcast_to_analysis.
CastSendRaises(b, closes) ==
    LET c == cast[b]
        seen == [c EXCEPT !.failed = Append(@, c.cur)]
        next == Advance(IF manager = ManagerV1
                        THEN [seen EXCEPT !.disconnected = Append(@, c.cur)]
                        ELSE seen)
    IN  /\ UsesHub
        /\ c.pc = "sending"
        /\ SendRaises(c.cur)
        /\ closes => sock[c.cur].app = "connected"
        /\ manager = ManagerV1 => closes
        /\ IF closes
           THEN /\ active_connections' = next.ac
                /\ cast' = [Others(next.ac, b) EXCEPT ![b] = next.call]
                /\ sock' = IF manager = ManagerV1 THEN sock
                           ELSE [sock EXCEPT ![c.cur] = [@ EXCEPT
                                   !.app = "disconnected"]]
           ELSE /\ cast' = [cast EXCEPT ![b] = [seen EXCEPT
                                   !.pc = "raised", !.cur = 0, !.i = 0,
                                   !.orphan = FALSE]]
                /\ UNCHANGED <<active_connections, sock>>
        /\ UNCHANGED <<cacheVars, docVars, restVars, proc, apiVars, now, serviceVars, events, manager>>

NextHub ==
    \/ \E w \in SocketIds, id \in AnalysisIds : ConnectAccepts(w, id)
    \/ \E w \in SocketIds, id \in AnalysisIds : ConnectRefused(w, id)
    \/ \E w \in SocketIds : Greet(w)
    \/ \E w \in SocketIds, closes \in BOOLEAN : GreetFails(w, closes)
    \/ \E w \in SocketIds : ReceiveDisconnect(w)
    \/ \E w \in SocketIds : Disconnect(w)
    \/ \E w \in SocketIds, id \in AnalysisIds : EndpointAccepts(w, id)
    \/ \E w \in SocketIds : EndpointCloses(w)
    \/ \E w \in SocketIds : PeerLeaves(w)
    \/ \E b \in CastIds, id \in AnalysisIds : CastStart(b, id)
    \/ \E b \in CastIds : CastDelivers(b)
    \/ \E b \in CastIds, closes \in BOOLEAN : CastSendRaises(b, closes)

\* the process that serves the websockets, with either ConnectionManager
InitHub ==
    /\ proc \in {"endpoint", "caller"}
    /\ analyses = {}
    /\ analysis = <<>>
    /\ storage = <<>>
    /\ current_id = 1
    /\ pc = <<>>
    /\ research_data = <<>>
    /\ calls = <<>>
    /\ status_seq = <<>>
    /\ request = <<>>
    /\ now = 0
    /\ response = NoResponse
    /\ issued = <<>>
    /\ boots = 0
    /\ served = 0
    /\ DocIdle
    /\ CacheIdle
    /\ db = <<>>
    /\ run = [r \in 1..MaxRuns |-> IdleRun]
    /\ events = <<>>
    /\ manager \in {ManagerV1, ManagerCore}
    /\ proc = "caller" => manager = ManagerV1
    /\ active_connections = <<>>
    /\ sock = [w \in SocketIds |-> NewSocket]
    /\ cast = [b \in CastIds |-> IdleCast]

SpecHub == InitHub /\ [][NextHub]_vars

\* the same process when peers may also stop reading. The event loop runs
\* every task whose await is over: a send of a broadcast call that can return
\* or raise eventually does.
NextHung == NextHub \/ \E w \in SocketIds : PeerHangs(w)

SpecHung ==
    /\ InitHub
    /\ [][NextHung]_vars
    /\ \A b \in CastIds :
          /\ WF_vars(CastDelivers(b))
          /\ WF_vars(\E closes \in BOOLEAN : CastSendRaises(b, closes))

\* the managers with websockets on the paths of two analyses: main.py's
\* endpoint with the manager of core/websocket.py, and the manager of
\* api/v1/websockets.py called directly (through the endpoint of
\* setup_websockets no websocket reaches a list)
PathIds == { "42", "43" }
\* one call of broadcast_to_analysis, for either id
PathCasts == { 1 }

NextPaths ==
    \/ \E w \in SocketIds, id \in PathIds : ConnectAccepts(w, id)
    \/ \E w \in SocketIds, id \in PathIds : ConnectRefused(w, id)
    \/ \E w \in SocketIds : Greet(w)
    \/ \E w \in SocketIds, closes \in BOOLEAN : GreetFails(w, closes)
    \/ \E w \in SocketIds : ReceiveDisconnect(w)
    \/ \E w \in SocketIds : Disconnect(w)
    \/ \E w \in SocketIds : PeerLeaves(w)
    \/ \E b \in PathCasts, id \in PathIds : CastStart(b, id)
    \/ \E b \in PathCasts : CastDelivers(b)
    \/ \E b \in PathCasts, closes \in BOOLEAN : CastSendRaises(b, closes)

InitPaths == InitHub /\ (proc = "endpoint" => manager = ManagerCore)

SpecPaths == InitPaths /\ [][NextPaths]_vars

----------------------------------------------------------------------------
(* app/main.py: the receive loop of websocket_endpoint, with its clients *)

\* f"Message received for analysis {analysis_id}: {data}"
EchoText(id, data) == [type |-> "echo", id |-> id, n |-> data]

\* (variant) an endpoint that answers one message and returns
AfterEchoOnce(ok) == "returned"

\* `while True`: after the answer the endpoint receives again; a failed send
\* leaves the loop through the except handlers
AfterEcho(ok) == IF ok THEN "receiving" ELSE "returned"

\* a client that has received the initial message sends a text frame
\* (tests/test_websocket.py)
ClientSends(w) ==
    /\ proc = "echo"
    /\ sock[w].pc \in {"receiving", "echoing"}
    /\ sock[w].client = "open"
    /\ sock[w].inbox # <<>>
    /\ sock[w].sent < MaxFrames
    /\ sock' = [sock EXCEPT ![w] = [@ EXCEPT
                  !.sent = @ + 1, !.pending = Append(@, sock[w].sent + 1)]]
    /\ UNCHANGED <<cacheVars, docVars, restVars, proc, apiVars, now, serviceVars, events, manager,
                   active_connections, cast>>

\* data = await websocket.receive_text() returns a frame
Receive(w) ==
    /\ proc = "echo"
    /\ manager = ManagerCore
    /\ sock[w].pc = "receiving"
    /\ sock[w].pending # <<>>
    /\ sock' = [sock EXCEPT ![w] = [@ EXCEPT
                  !.pc = "echoing", !.data = Head(sock[w].pending),
                  !.pending = Tail(@)]]
    /\ UNCHANGED <<cacheVars, docVars, restVars, proc, apiVars, now, serviceVars, events, manager,
                   active_connections, cast>>

\* await websocket.send_text(...) returns
EchoReturns(w) ==
    /\ proc = "echo"
    /\ sock[w].pc = "echoing"
    /\ SendReturns(w)
    /\ sock' = [sock EXCEPT ![w] = [@ EXCEPT
                  !.pc = AfterEcho(TRUE), !.data = 0,
                  !.inbox = Append(@, EchoText(sock[w].id, sock[w].data))]]
    /\ UNCHANGED <<cacheVars, docVars, restVars, proc, apiVars, now, serviceVars, events, manager,
                   active_connections, cast>>

\* await websocket.send_text(...) raises: the handler calls
\* manager.disconnect and the endpoint returns
EchoRaises(w) ==
    /\ proc = "echo"
    /\ sock[w].pc = "echoing"
    /\ SendRaises(w)
    /\ sock' = [sock EXCEPT ![w] = [@ EXCEPT
                  !.pc = IF DisconnectRaises(active_connections, w, sock[w].id)
                         THEN "crashed" ELSE AfterEcho(FALSE),
                  !.left = Left(active_connections, w, sock[w].id),
                  !.app = "disconnected", !.client = "gone",
                  !.pending = <<>>, !.data = 0]]
    /\ active_connections' = disconnect(active_connections, w, sock[w].id)
    /\ cast' = Others(active_connections', 0)
    /\ UNCHANGED <<cacheVars, docVars, restVars, proc, apiVars, now, serviceVars, events, manager>>

\* the websocket of the client that talks (tests/test_websocket.py opens
\* one connection); the broadcasts reach it like any subscriber
ClientIds == {1}

NextEcho ==
    \/ \E w \in ClientIds, id \in AnalysisIds : ConnectAccepts(w, id)
    \/ \E w \in ClientIds, id \in AnalysisIds : ConnectRefused(w, id)
    \/ \E w \in ClientIds : Greet(w)
    \/ \E w \in ClientIds, closes \in BOOLEAN : GreetFails(w, closes)
    \/ \E w \in ClientIds : ReceiveDisconnect(w)
    \/ \E w \in ClientIds : PeerLeaves(w)
    \/ \E w \in ClientIds : ClientSends(w)
    \/ \E w \in ClientIds : Receive(w)
    \/ \E w \in ClientIds : EchoReturns(w)
    \/ \E w \in ClientIds : EchoRaises(w)
    \/ \E b \in CastIds, id \in AnalysisIds : CastStart(b, id)
    \/ \E b \in CastIds : CastDelivers(b)
    \/ \E b \in CastIds, closes \in BOOLEAN : CastSendRaises(b, closes)

\* the application of main.py serving websocket clients that send frames
InitEcho ==
    /\ proc = "echo"
    /\ analyses = {}
    /\ analysis = <<>>
    /\ storage = <<>>
    /\ current_id = 1
    /\ pc = <<>>
    /\ research_data = <<>>
    /\ calls = <<>>
    /\ status_seq = <<>>
    /\ request = <<>>
    /\ now = 0
    /\ response = NoResponse
    /\ issued = <<>>
    /\ boots = 0
    /\ served = 0
    /\ DocIdle
    /\ CacheIdle
    /\ db = <<>>
    /\ run = [r \in 1..MaxRuns |-> IdleRun]
    /\ events = <<>>
    /\ HubIdle

\* The endpoint tasks are tasks of the asyncio loop: a task whose await can
\* complete is resumed (receive_text with a frame queued, send_text to a
\* peer that reads or that is gone), and so is a broadcast's send.
SpecEcho ==
    /\ InitEcho
    /\ [][NextEcho]_vars
    /\ \A w \in ClientIds :
          /\ WF_vars(Receive(w))
          /\ WF_vars(EchoReturns(w))
          /\ WF_vars(EchoRaises(w))
    /\ \A b \in CastIds :
          /\ WF_vars(CastDelivers(b))
          /\ WF_vars(\E closes \in BOOLEAN : CastSendRaises(b, closes))

Next == NextApi \/ NextService

Spec == Init /\ [][Next]_vars

----------------------------------------------------------------------------
(* app/api/v1/analysis.py: the other request handlers and the restart *)

\* (variant) a handler that answers a request for an unknown id with success
NotFoundAsOk(op, id) ==
    [op |-> op, id |-> id, code |-> 200, detail |-> "", body |-> <<>>]

\* HTTPException(status_code=404, detail="Analysis not found")
NotFound(op, id) ==
    [op |-> op, id |-> id, code |-> 404, detail |-> "Analysis not found",
     body |-> <<>>]

\* the AnalysisUpdate bodies a client may send (exclude_unset: only the
\* fields that were sent): a status, a progress, a parameters dict
UpdateChoices ==
    { [status |-> "completed"],
      [progress |-> ProgressPending, parameters |-> Some(EmptyDict)] }

\* for field, value in update_data.items(): setattr(db_analysis, field, value);
\* db_analysis.updated_at = datetime.utcnow()
Updated(a, u, t) ==
    [f \in DOMAIN a |-> IF f = "updated_at" THEN t
                        ELSE IF f \in DOMAIN u THEN u[f] ELSE a[f]]

\* datetime_handler: a datetime is written as its ISO string
isoformat(t) == <<"iso", t>>
\* datetime.fromisoformat
fromisoformat(s) == s[2]

\* json.dump of the dict: the keys become strings, the datetimes ISO strings
dump(file) ==
    [k \in { <<"str", i>> : i \in DOMAIN file } |->
        [file[k[2]] EXCEPT !.created_at = isoformat(@),
                           !.updated_at = isoformat(@)]]

\* the module-level load: int(k), Analysis(**v) with the dates parsed
load_analyses(text) ==
    [i \in { k[2] : k \in DOMAIN text } |->
        [text[<<"str", i>>] EXCEPT !.created_at = fromisoformat(@),
                                   !.updated_at = fromisoformat(@)]]

Max(S) == CHOOSE x \in S : \A y \in S : y <= x

\* current_id = max(analyses.keys()) + 1 if analyses else 1
NextId(keys) == IF keys = {} THEN 1 ELSE Max(keys) + 1

\* GET /analyses/{analysis_id}: get_analysis
get_analysis(id) ==
    /\ proc = "rest"
    /\ served < MaxRequests
    /\ served' = served + 1
    /\ response' = IF id \notin analyses THEN NotFound("get", id)
                   ELSE Returned("get", id, <<analysis[id]>>)
    /\ UNCHANGED <<cacheVars, docVars, issued, boots, proc, apiVars, now, serviceVars, events, hubVars>>

\* PUT /analyses/{analysis_id}: update_analysis
update_analysis(id, u) ==
    /\ proc = "rest"
    /\ served < MaxRequests
    /\ served' = served + 1
    /\ IF id \notin analyses
       THEN /\ response' = NotFound("update", id)
            /\ UNCHANGED <<analyses, analysis, storage, status_seq>>
       ELSE /\ Store(id, Updated(analysis[id], u, now))
            /\ response' = Returned("update", id, <<Updated(analysis[id], u, now)>>)
    /\ UNCHANGED <<cacheVars, docVars, issued, boots, proc, current_id, pc, research_data, calls, request,
                   now, serviceVars, events, hubVars>>

\* DELETE /analyses/{analysis_id}: delete_analysis. A task of the id keeps
\* its local `analysis` object
delete_analysis(id) ==
    /\ proc = "rest"
    /\ served < MaxRequests
    /\ served' = served + 1
    /\ IF id \notin analyses
       THEN /\ response' = NotFound("delete", id)
            /\ UNCHANGED <<analyses, storage>>
       ELSE /\ analyses' = analyses \ {id}
            /\ storage' = save_analyses(analyses \ {id}, analysis)
            /\ response' = [Returned("delete", id, <<>>) EXCEPT
                               !.detail = "Analysis deleted"]
    /\ UNCHANGED <<cacheVars, docVars, issued, boots, proc, analysis, current_id, pc, research_data, calls,
                   status_seq, request, now, serviceVars, events, hubVars>>

\* process_analysis of an id that was deleted before the task's first step:
\* `analysis = analyses[analysis_id]` raises KeyError outside the try
TaskKeyError(id) ==
    /\ proc = "rest"
    /\ id \in DOMAIN pc /\ pc[id] = "start"
    /\ id \notin analyses
    /\ pc' = [pc EXCEPT ![id] = "crashed"]
    /\ UNCHANGED <<cacheVars, docVars, restVars, proc, analyses, analysis, storage, current_id,
                   research_data, calls, status_seq, request, now, serviceVars,
                   events, hubVars>>

\* the application process is started again: the tasks of the old process
\* are gone, the module is imported and reads STORAGE_FILE
Restart ==
    /\ proc \in {"rest", "crash"}
    /\ boots < MaxBoots
    /\ boots' = boots + 1
    /\ analysis' = load_analyses(dump(storage))
    /\ analyses' = DOMAIN load_analyses(dump(storage))
    /\ current_id' = NextId(DOMAIN load_analyses(dump(storage)))
    /\ pc' = <<>>
    /\ research_data' = <<>>
    /\ calls' = <<>>
    /\ status_seq' = <<>>
    /\ request' = <<>>
    /\ response' = NoResponse
    /\ UNCHANGED <<cacheVars, docVars, issued, served, proc, storage, now, serviceVars, events, hubVars>>

\* the parameters sent with a creation request here: omitted
RestParameters == { None }

NextRest ==
    \/ \E p \in RestParameters : create_analysis(p)
    \/ \E id \in JobIds : StartResearch(id)
    \/ \E id \in JobIds : ResearchReturns(id, <<"ok">>)
    \/ \E id \in JobIds : ResearchRaises(id, <<"timeout">>)
    \/ \E id \in JobIds : AnalysisReturns(id, <<"insights">>)
    \/ \E id \in JobIds : AnalysisRaises(id, <<"timeout">>)
    \/ \E id \in JobIds : get_analysis(id)
    \/ \E id \in JobIds, u \in UpdateChoices : update_analysis(id, u)
    \/ \E id \in JobIds : delete_analysis(id)
    \/ \E id \in JobIds : TaskKeyError(id)
    \/ Restart

InitRest ==
    /\ proc = "rest"
    /\ analyses = {}
    /\ analysis = <<>>
    /\ storage = <<>>
    /\ current_id = 1
    /\ pc = <<>>
    /\ research_data = <<>>
    /\ calls = <<>>
    /\ status_seq = <<>>
    /\ request = <<>>
    /\ now = 0
    /\ response = NoResponse
    /\ issued = <<>>
    /\ boots = 0
    /\ served = 0
    /\ DocIdle
    /\ CacheIdle
    /\ db = <<>>
    /\ run = [r \in 1..MaxRuns |-> IdleRun]
    /\ events = <<>>
    /\ HubIdle

SpecRest == InitRest /\ [][NextRest]_vars

----------------------------------------------------------------------------
(* app/services/report_service.py *)

\* what the results column of a row may hold: None (the empty sequence), an
\* empty dict, dicts with main points, insights and sections
ReportResults ==
    { <<>>,
      <<EmptyDict>>,
      <<[main_points |-> <<"growth", "risk">>]>>,
      <<[insights |-> <<[title |-> "demand"], [description |-> "untitled"]>>]>>,
      <<[main_points |-> <<"growth">>, sections |-> <<"market">>]>> }

\* the values the status column takes (models/analysis.py and the service)
ReportStatuses ==
    { "pending", "processing", "researching", "analyzing", "completed", "failed" }

\* the rows generate_report may find
ReportRows ==
    { [query |-> "EV battery market", status |-> st, results |-> rs, error |-> <<>>] :
          st \in ReportStatuses, rs \in ReportResults }

\* the tables the database may hold
ReportTables == UNION { [1..n -> ReportRows] : n \in 0..MaxRows }

\* `not results`: None and the empty dict are falsy
Falsy(results) == results = <<>> \/ DOMAIN results[1] = {}

\* " ".join(main_points)
RECURSIVE Join(_)
Join(points) ==
    IF points = <<>> THEN <<>>
    ELSE IF Len(points) = 1 THEN points
    ELSE <<points[1], " ">> \o Join(Tail(points))

\* _generate_summary
generate_summary(results) ==
    IF Falsy(results) \/ "main_points" \notin DOMAIN results[1]
    THEN <<"No summary available">>
    ELSE Join(results[1].main_points)

\* insight.get(key, default)
Get(d, k, default) == IF k \in DOMAIN d THEN d[k] ELSE default

\* _extract_key_findings
extract_key_findings(results) ==
    IF Falsy(results) \/ "insights" \notin DOMAIN results[1] THEN <<>>
    ELSE [i \in 1..Len(results[1].insights) |->
             [title |-> Get(results[1].insights[i], "title", "Untitled Finding"),
              description |-> Get(results[1].insights[i], "description", "")]]

\* _generate_detailed_analysis
generate_detailed_analysis(results) ==
    [sections |-> IF Falsy(results) \/ "sections" \notin DOMAIN results[1]
                  THEN <<>> ELSE results[1].sections,
     charts |-> <<>>,
     tables |-> <<>>]

\* (variant) a gate that only refuses the analyses that have not started
NotPending(row) == row.status # "pending"

\* `if analysis.status != "completed": raise ...` passes
IsCompleted(row) == row.status = "completed"

\* ReportService.generate_report(analysis_id, template_id) at time t
generate_report(rows, analysis_id, template_id, t) ==
    IF analysis_id \notin DOMAIN rows
    THEN [call |-> <<analysis_id, template_id>>, raised |-> "ValueError",
          value |-> <<"Analysis ", analysis_id, " not found">>]
    ELSE IF ~IsCompleted(rows[analysis_id])
    THEN [call |-> <<analysis_id, template_id>>, raised |-> "ValueError",
          value |-> <<"Analysis ", analysis_id, " is not completed">>]
    ELSE [call |-> <<analysis_id, template_id>>, raised |-> "",
          value |-> <<[id |-> <<"report_", analysis_id, "_", t>>,
                       analysis_id |-> analysis_id,
                       generated_at |-> t,
                       query |-> rows[analysis_id].query,
                       summary |-> generate_summary(rows[analysis_id].results),
                       key_findings |->
                           extract_key_findings(rows[analysis_id].results),
                       detailed_analysis |->
                           generate_detailed_analysis(rows[analysis_id].results),
                       metadata |-> [template_id |-> template_id,
                                     version |-> "1.0"]]>>]

\* the ids a report is asked for: those of the rows and the next one
ReportIds == 1..(MaxRows + 1)
\* the template_id argument: None or an id
TemplateArgs == { <<>>, <<"tpl">> }

\* a call of generate_report
GenerateReport(analysis_id, template_id) ==
    /\ proc = "report"
    /\ report' = generate_report(db, analysis_id, template_id, now)
    /\ UNCHANGED <<cacheVars, templates, heap, template_data, restVars, proc, apiVars, now,
                   serviceVars, events, hubVars>>

NextReport ==
    \E analysis_id \in ReportIds, template_id \in TemplateArgs :
        GenerateReport(analysis_id, template_id)

\* the database holds any table of analysis rows
InitReport ==
    /\ proc = "report"
    /\ analyses = {}
    /\ analysis = <<>>
    /\ storage = <<>>
    /\ current_id = 1
    /\ pc = <<>>
    /\ research_data = <<>>
    /\ calls = <<>>
    /\ status_seq = <<>>
    /\ request = <<>>
    /\ now = 0
    /\ response = NoResponse
    /\ issued = <<>>
    /\ boots = 0
    /\ served = 0
    /\ DocIdle
    /\ CacheIdle
    /\ db \in ReportTables
    /\ run = [r \in 1..MaxRuns |-> IdleRun]
    /\ events = <<>>
    /\ HubIdle

SpecReport == InitReport /\ [][NextReport]_vars

----------------------------------------------------------------------------
(* app/services/template_service.py *)
(* A dict or list of Python is an object: `heap` maps a reference to the   *)
(* object's content, and a row or a result holds references. An in-place   *)
(* update changes the content under a reference, for every holder of it.   *)

\* the references: the row's parameters and prompts, the copies get_template
\* makes of them, the prompts list of the caller's customize argument
RefParameters == 1
RefPrompts == 2
RefParametersCopy == 3
RefPromptsCopy == 4
RefCustomPrompts == 5

\* the parameters and prompts a template row may have been created with
StoredParameters ==
    { EmptyDict, [max_tokens |-> 1000], [max_tokens |-> 1000, depth |-> "brief"] }
StoredPrompts == { <<>>, <<"p1">>, <<"p1", "p2">> }

\* the customize argument: None, an empty dict, parameter overrides, replaced
\* and appended prompts
CustomizeChoices ==
    { <<>>,
      <<EmptyDict>>,
      <<[parameters |-> [max_tokens |-> 2000]]>>,
      <<[parameters |-> [language |-> "en"]]>>,
      <<[prompts |-> <<"custom">>]>>,
      <<[prompts |-> <<"custom">>, append_prompts |-> FALSE]>>,
      <<[prompts |-> <<"custom">>, append_prompts |-> TRUE]>>,
      <<[parameters |-> [max_tokens |-> 2000], prompts |-> <<"custom">>,
         append_prompts |-> TRUE]>> }

TemplateIds == { "t1", "t2" }

\* `if customize:` None and the empty dict are falsy
Truthy(customize) == customize # <<>> /\ DOMAIN customize[1] # {}

\* dict.update
Update(d, e) ==
    [k \in (DOMAIN d) \cup (DOMAIN e) |-> IF k \in DOMAIN e THEN e[k] ELSE d[k]]

\* (variant) the object itself is handed on instead of a copy
alias(h, r, fresh) == [ref |-> r, heap |-> h]

\* x.copy(): a new object with the content of the object r refers to
copy(h, r, fresh) == [ref |-> fresh, heap |-> Set(h, fresh, h[r])]

\* _customize_template(template, customize): customized = template.copy() is
\* a new outer dict that holds the same two references
customize_template(h, template, customize) ==
    LET h1 == IF "parameters" \in DOMAIN customize
              THEN [h EXCEPT ![template.parameters] =
                       Update(@, customize.parameters)]
              ELSE h
        append == Get(customize, "append_prompts", FALSE)
    IN  IF "prompts" \notin DOMAIN customize
        THEN [heap |-> h1, data |-> template]
        ELSE IF append
        THEN [heap |-> [h1 EXCEPT ![template.prompts] = @ \o customize.prompts],
              data |-> template]
        ELSE [heap |-> Set(h1, RefCustomPrompts, customize.prompts),
              data |-> [template EXCEPT !.prompts = RefCustomPrompts]]

\* TemplateService.get_template(template_id, customize) on the objects h
get_template(h, rows, template_id, customize) ==
    IF template_id \notin DOMAIN rows
    THEN [heap |-> h,
          result |-> [call |-> <<template_id, customize>>, raised |-> "ValueError",
                      value |-> <<"Template ", template_id, " not found">>]]
    ELSE LET row == rows[template_id]
             p == copy(h, row.parameters, RefParametersCopy)
             q == copy(p.heap, row.prompts, RefPromptsCopy)
             template == [id |-> template_id, name |-> row.name,
                          category |-> row.category,
                          parameters |-> p.ref, prompts |-> q.ref]
             c == IF Truthy(customize)
                  THEN customize_template(q.heap, template, customize[1])
                  ELSE [heap |-> q.heap, data |-> template]
         IN  [heap |-> c.heap,
              result |-> [call |-> <<template_id, customize>>, raised |-> "",
                          value |-> <<c.data>>]]

\* the objects the rows refer to: what a caller got from an earlier call is
\* the caller's and no longer reachable from the service
Stored(h, rows) ==
    [r \in { x \in DOMAIN h : \E id \in DOMAIN rows :
                x \in {rows[id].parameters, rows[id].prompts} } |-> h[r]]

\* a call of get_template
GetTemplate(template_id, customize) ==
    /\ proc = "template"
    /\ LET out == get_template(Stored(heap, templates), templates, template_id,
                               customize)
       IN /\ heap' = out.heap
          /\ template_data' = out.result
    /\ UNCHANGED <<cacheVars, report, templates, restVars, proc, apiVars, now, serviceVars,
                   events, hubVars>>

NextTemplate ==
    \E template_id \in TemplateIds, customize \in CustomizeChoices :
        GetTemplate(template_id, customize)

\* the database holds one template row, created with any parameters and
\* prompts
InitTemplate ==
    /\ proc = "template"
    /\ analyses = {}
    /\ analysis = <<>>
    /\ storage = <<>>
    /\ current_id = 1
    /\ pc = <<>>
    /\ research_data = <<>>
    /\ calls = <<>>
    /\ status_seq = <<>>
    /\ request = <<>>
    /\ now = 0
    /\ response = NoResponse
    /\ issued = <<>>
    /\ boots = 0
    /\ served = 0
    /\ report = NoCall
    /\ template_data = NoCall
    /\ CacheIdle
    /\ templates = [id \in {"t1"} |->
                       [name |-> "Test Template", category |-> "research",
                        parameters |-> RefParameters, prompts |-> RefPrompts]]
    /\ \E ps \in StoredParameters, ls \in StoredPrompts :
           heap = [r \in {RefParameters, RefPrompts} |->
                      IF r = RefParameters THEN ps ELSE ls]
    /\ db = <<>>
    /\ run = [r \in 1..MaxRuns |-> IdleRun]
    /\ events = <<>>
    /\ HubIdle

SpecTemplate == InitTemplate /\ [][NextTemplate]_vars

----------------------------------------------------------------------------
(* Properties *)

\* `k in (p or {})`
Has(p, k) == (~p.none) /\ k \in DOMAIN p.dict
Last(s) == s[Len(s)]
Range(s) == { s[i] : i \in DOMAIN s }
EndsWith(s, t) == Len(s) >= Len(t) /\ SubSeq(s, Len(s) - Len(t) + 1, Len(s)) = t

\* the provider calls of an api task, by outcome
ResearchOk(id) == Len(calls[id]) >= 1 /\ calls[id][1].ok
ResearchFailed(id) == Len(calls[id]) >= 1 /\ ~calls[id][1].ok
AnalysisOk(id) == Len(calls[id]) = 2 /\ calls[id][2].ok
AnalysisFailed(id) == Len(calls[id]) = 2 /\ ~calls[id][2].ok

\* a run of ResearchService.process_analysis that is between its start and
\* its return or raise
InFlight(r) == run[r].pc \in {"perplexity", "openai"}
\* a run whose first provider failed and whose second provider succeeded
FellBack(r) ==
    /\ Len(run[r].tried) = 2
    /\ ~run[r].tried[1].ok
    /\ run[r].tried[2].ok

\* C1: the status values a job record of api/v1/analysis.py takes from its
\* creation form a prefix of pending, researching, analyzing, completed, or
\* such a prefix ended by failed after researching or after analyzing;
\* whatever the other jobs' tasks do in between.
StatusOrdering ==
    \A id \in DOMAIN status_seq :
        status_seq[id] \in
            { <<"pending">>,
              <<"pending", "researching">>,
              <<"pending", "researching", "analyzing">>,
              <<"pending", "researching", "analyzing", "completed">>,
              <<"pending", "researching", "failed">>,
              <<"pending", "researching", "analyzing", "failed">> }

\* two jobs whose tasks ran side by side, one completed, one failed in research
StatusOrderingWitness ==
    \E i, j \in DOMAIN status_seq :
        /\ status_seq[i] = <<"pending", "researching", "analyzing", "completed">>
        /\ status_seq[j] = <<"pending", "researching", "failed">>
        /\ analysis[i].created_at = analysis[j].created_at

StatusProgressTable ==
    /\ \A id \in DOMAIN analysis :
          LET a == analysis[id] IN
          \/ a.status = "pending" /\ a.progress = 0
          \/ a.status = "researching" /\ a.progress = 25
          \/ a.status = "analyzing" /\ a.progress = 50
          \/ a.status = "completed" /\ a.progress = 100
          \/ a.status = "failed" /\ a.progress \in {25, 50}
    /\ \A id \in DOMAIN db :
          db[id].status \in {"pending", "researching", "analyzing", "completed", "failed"}

\* C4: when the research call and the analysis call of a task both succeed,
\* the record is completed with progress 1.0, research_data holds the
\* research call's output, analysis_results the analysis call's output, and
\* updated_at is later than created_at.
CompletedRecord ==
    \A id \in DOMAIN calls :
        (ResearchOk(id) /\ AnalysisOk(id)) =>
            LET a == analysis[id] IN
            /\ a.status = "completed"
            /\ a.progress = 100
            /\ Has(a.parameters, "research_data")
            /\ a.parameters.dict["research_data"] = calls[id][1].value
            /\ Has(a.parameters, "analysis_results")
            /\ a.parameters.dict["analysis_results"] = calls[id][2].value
            /\ a.updated_at > a.created_at

\* a job submitted without parameters has completed
CompletedRecordWitness ==
    \E id \in DOMAIN calls :
        /\ ResearchOk(id) /\ AnalysisOk(id)
        /\ request[id].parameters = None
        /\ pc[id] = "done"

ResearchFailureRecord ==
    \A id \in DOMAIN calls :
        ResearchFailed(id) =>
            LET a == analysis[id] IN
            /\ a.status = "failed"
            /\ a.progress = 25
            /\ Has(a.parameters, "error")
            /\ Len(a.parameters.dict["error"]) > 0
            /\ EndsWith(a.parameters.dict["error"], calls[id][1].value)
            /\ \A i \in DOMAIN calls[id] : calls[id][i].provider # "openai"
            /\ pc[id] = "done"

\* a research failure with a message, on a job whose parameters already had
\* an error key
ResearchFailureRecordWitness ==
    \E id \in DOMAIN calls :
        /\ ResearchFailed(id)
        /\ calls[id][1].value = <<"timeout">>
        /\ Has(request[id].parameters, "error")
        /\ pc[id] = "done"

OneRunPerId ==
    \A r1, r2 \in RunIds :
        (r1 # r2 /\ InFlight(r1) /\ InFlight(r2)) => run[r1].id # run[r2].id

\* C9 (as claimed): a run never propagates an error to its caller: after a
\* provider failure that ends the run, process_analysis of api/v1/analysis.py
\* and ResearchService.process_analysis have returned normally.
RunNeverPropagates ==
    /\ \A id \in DOMAIN calls :
          (calls[id] # <<>> /\ ~Last(calls[id]).ok) => pc[id] = "done"
    /\ \A r \in RunIds :
          (run[r].tried # <<>> /\ ~Last(run[r].tried).ok
             /\ Last(run[r].tried).provider = "openai") => run[r].pc = "returned"

\* C9 (amended): the step that handles a provider failure in process_analysis
\* of api/v1/analysis.py records it in the job record (status failed and an
\* error message) and the task returns normally. The step that handles the
\* second provider's failure in ResearchService.process_analysis records it in
\* the row (status failed and the error message) and then raises
\* HTTPException(500) to the caller.
FailureHandling ==
    [][/\ \A id \in DOMAIN calls :
             (Len(calls'[id]) = Len(calls[id]) + 1 /\ ~Last(calls'[id]).ok)
             => /\ pc'[id] = "done"
                /\ analysis'[id].status = "failed"
                /\ Has(analysis'[id].parameters, "error")
                /\ EndsWith(analysis'[id].parameters.dict["error"],
                            Last(calls'[id]).value)
       /\ \A r \in RunIds :
             (/\ Len(run'[r].tried) = Len(run[r].tried) + 1
              /\ ~Last(run'[r].tried).ok
              /\ Last(run'[r].tried).provider = "openai")
             => /\ db'[run[r].id].status = "failed"
                /\ db'[run[r].id].error = <<Last(run'[r].tried).value>>
                /\ run'[r].pc = "raised"
                /\ run'[r].http = 500]_vars

\* an api task has handled an analysis failure and returned
FailureHandlingWitness ==
    \E id \in DOMAIN calls :
        /\ AnalysisFailed(id)
        /\ pc[id] = "done"
        /\ analysis[id].status = "failed"

\* C10: once a job record of api/v1/analysis.py is failed or completed, no
\* step makes a provider call for the job or changes its status, progress or
\* parameters; and the step that makes a record failed keeps its progress.
TerminalIsFinal ==
    [][\A id \in DOMAIN analysis :
          /\ analysis[id].status \in {"failed", "completed"}
                => /\ analysis'[id].status = analysis[id].status
                   /\ analysis'[id].progress = analysis[id].progress
                   /\ analysis'[id].parameters = analysis[id].parameters
                   /\ calls'[id] = calls[id]
                   /\ pc'[id] = pc[id]
          /\ analysis'[id].status = "failed"
                => analysis'[id].progress = analysis[id].progress]_vars

\* a job failed in research before another job ran to completion
TerminalIsFinalWitness ==
    \E i, j \in DOMAIN analysis :
        /\ analysis[i].status = "failed"
        /\ analysis[j].status = "completed"
        /\ analysis[j].updated_at > analysis[i].created_at + 1
        /\ Len(calls[i]) = 1

\* C11: in one run of ResearchService.process_analysis the second provider
\* (analyze_with_openai) is called at most once, and only directly after the
\* run's call of the first provider (analyze_with_perplexity) has failed; in
\* a task of api/v1/analysis.py a failed analysis-phase call is the task's
\* last provider call: the task is over and no call is in progress.
ProviderCallOrder ==
    /\ \A r \in RunIds :
          LET t == run[r].tried
              second == { i \in DOMAIN t : t[i].provider = "openai" }
          IN  /\ Cardinality(second) <= 1
              /\ \A i \in second :
                    i = 2 /\ t[1].provider = "perplexity" /\ ~t[1].ok
              /\ run[r].pc = "openai" =>
                    Len(t) = 1 /\ t[1].provider = "perplexity" /\ ~t[1].ok
              /\ Len(t) = 2 => run[r].pc \in {"returned", "raised"}
    /\ \A id \in DOMAIN calls :
          (Len(calls[id]) >= 2 /\ ~calls[id][2].ok) =>
              Len(calls[id]) = 2 /\ pc[id] = "done"

\* a run whose first provider failed, whose second provider was then called
\* once and failed too, and which has ended
ProviderCallOrderWitness ==
    \E r \in RunIds :
        /\ Len(run[r].tried) = 2
        /\ run[r].tried[1].provider = "perplexity" /\ ~run[r].tried[1].ok
        /\ run[r].tried[2].provider = "openai" /\ ~run[r].tried[2].ok
        /\ run[r].pc = "raised"

\* C12: when a broadcast_to_analysis call of api/v1/websockets.py returns,
\* every connection whose send returned has the message and no connection
\* whose send raised is in the id's list any more; when no other task has
\* changed the list during the call, every connection of the list at the
\* call had its send attempted (a raising send does not end the loop), the
\* list is the list at the call without the failed connections, in order,
\* and so is shorter by their number.
BroadcastPrunes ==
    [][\A b \in CastIds :
          (manager = ManagerV1 /\ cast[b].pc = "sending" /\ cast'[b].pc = "returned") =>
              LET c == cast'[b]
                  list == Listed(active_connections', c.id)
                  Healthy(w) == ~Contains(c.failed, w)
              IN  /\ \A w \in Range(c.ok) :
                        Contains(sock'[w].inbox, Message(c.id, b))
                  /\ \A w \in Range(c.failed) : ~Contains(list, w)
                  /\ c.alone =>
                        /\ Range(c.first) = Range(c.ok) \cup Range(c.failed)
                        /\ list = SelectSeq(c.first, Healthy)
                        /\ Len(list) = Len(c.first) - Len(c.failed)]_vars

\* a call over two connections has returned: the send to the first raised,
\* the second has the message and is the only connection left in the list
BroadcastPrunesWitness ==
    \E b \in CastIds :
        /\ manager = ManagerV1
        /\ cast[b].pc = "returned"
        /\ cast[b].alone
        /\ cast[b].first = <<1, 2>>
        /\ cast[b].failed = <<1>>
        /\ cast[b].ok = <<2>>
        /\ Listed(active_connections, cast[b].id) = <<2>>
        /\ Contains(sock[2].inbox, Message(cast[b].id, b))

\* C13: with the manager of core/websocket.py, a connection whose send raised
\* during a broadcast_to_analysis call is no longer in the id's list once
\* the call is over.
FailedSinkRemoved ==
    \A b \in CastIds :
        (manager = ManagerCore /\ cast[b].pc \in {"returned", "raised"}) =>
            \A w \in Range(cast[b].failed) :
                ~Contains(Listed(active_connections, cast[b].id), w)

\* C14: no call of broadcast_to_analysis ends by raising to its caller,
\* whatever the state of the connections of the list.
BroadcastNeverRaises ==
    \A b \in CastIds : cast[b].pc # "raised"

\* the number of times frame m is in a peer's inbox
Count(inbox, m) == Cardinality({ k \in DOMAIN inbox : inbox[k] = m })

\* C15: connecting again to a job id neither duplicates nor drops a delivery:
\* a connect leaves the connections already in the id's list where they are
\* and adds its own once; no peer ever has the message of one broadcast call
\* twice; and when a call returns that no other task disturbed, every
\* connection of the list at the call whose send returned, the first one
\* included, has the message exactly once.
SubscribeOnce ==
    /\ [](\A w \in SocketIds, b \in CastIds, id \in AnalysisIds :
              /\ Count(sock[w].inbox, Message(id, b)) <= 1
              /\ Count(Listed(active_connections, id), w) <= 1)
    /\ [][\A w \in SocketIds :
              (sock[w].pc = "new" /\ sock'[w].pc = "greeting") =>
                  Listed(active_connections', sock'[w].id) =
                      Append(Listed(active_connections, sock'[w].id), w)]_vars
    /\ [][\A b \in CastIds :
              (cast[b].pc = "sending" /\ cast'[b].pc = "returned" /\ cast'[b].alone) =>
                  \A w \in Range(cast'[b].first) :
                      \/ Contains(cast'[b].failed, w)
                      \/ Count(sock'[w].inbox, Message(cast'[b].id, b)) = 1]_vars

\* two connections were made on one id, and a broadcast call that followed
\* has returned with its message delivered to both, first connection first
SubscribeOnceWitness ==
    \E b \in CastIds :
        /\ cast[b].pc = "returned"
        /\ cast[b].first = <<1, 2>>
        /\ cast[b].ok = <<1, 2>>
        /\ Count(sock[1].inbox, Message(cast[b].id, b)) = 1
        /\ Count(sock[2].inbox, Message(cast[b].id, b)) = 1

\* the websocket task of w has got past manager.connect and the send of the
\* initial status
PastGreeting(w) == sock[w].pc \notin {"new", "greeting"}

\* C16: through the module's websocket_endpoint, a websocket whose handshake
\* was accepted and whose peer stays is, once the endpoint has got past
\* manager.connect and the initial send, in the list of its id, and the first
\* frame its peer has received is the connection_status frame with that id.
HandshakeRegisters ==
    \A w \in SocketIds :
        (proc = "endpoint" /\ PastGreeting(w) /\ sock[w].client = "open") =>
            /\ Contains(Listed(active_connections, sock[w].id), w)
            /\ sock[w].inbox # <<>>
            /\ sock[w].inbox[1] = ConnectionStatus(sock[w].id)

\* C17: no id of active_connections maps to an empty list.
NoEmptyList ==
    \A id \in DOMAIN active_connections : active_connections[id] # <<>>

\* the pruning of a broadcast call removed the last connection of the id, and
\* the id has no entry any more
NoEmptyListWitness ==
    \E b \in CastIds :
        /\ cast[b].pc = "returned"
        /\ cast[b].first # <<>>
        /\ cast[b].disconnected = cast[b].first
        /\ cast[b].id \notin DOMAIN active_connections

\* the status values of the events handed over for id, in order
EventsOf(id) == [k \in DOMAIN Emitted(id) |-> Emitted(id)[k].status]

\* C18: every transition of a job of api/v1/analysis.py has handed an
\* analysis_update event with the new status to the websocket layer, in the
\* order of the transitions: the events of a job are the status values it
\* has taken since its creation.
TransitionsEmit ==
    \A id \in DOMAIN status_seq : EventsOf(id) = Tail(status_seq[id])

\* the runs of ResearchService.process_analysis started on row id
RunsOn(id) == { r \in RunIds : run[r].pc # "idle" /\ run[r].id = id }

\* C20: while a provider call of a run is in progress, the transition before
\* it is complete: the record with the new status has been persisted (the
\* storage file holds the record as it is in memory; the row holds the
\* status the run wrote) and the status event of that transition is the last
\* event handed to the websocket layer for the id.
TransitionBeforeCall ==
    /\ \A id \in DOMAIN pc :
          pc[id] \in {"research", "analysis"} =>
              /\ id \in DOMAIN storage /\ storage[id] = analysis[id]
              /\ Emitted(id) # <<>>
              /\ Last(Emitted(id)).status = analysis[id].status
    /\ \A r \in RunIds :
          (InFlight(r) /\ RunsOn(run[r].id) = {r}) =>
              /\ db[run[r].id].status = Last(run[r].wrote)
              /\ Emitted(run[r].id) # <<>>
              /\ Last(Emitted(run[r].id)).status = Last(run[r].wrote)

\* C19: every broadcast_to_analysis call that is under way eventually ends,
\* whatever the state of the peers, a peer that has stopped reading included.
BroadcastEnds ==
    \A b \in CastIds :
        (cast[b].pc = "sending") ~> (cast[b].pc \in {"returned", "raised"})

\* C21: when a broadcast_to_analysis call returns, every connection that was
\* in the id's list at the call, is still in it, and whose peer and
\* application side are still up (so it was registered and healthy during
\* the whole call) has the call's message exactly once, whatever connects
\* and disconnects of other connections happened during the call; and no
\* call ends by raising while every connection it sent to was healthy.
BroadcastUnderChange ==
    [][\A b \in CastIds :
          /\ (cast[b].pc = "sending" /\ cast'[b].pc = "returned") =>
                \A w \in Range(cast'[b].first) :
                    ( /\ Contains(Listed(active_connections', cast'[b].id), w)
                      /\ sock'[w].app = "connected"
                      /\ sock'[w].client = "open" ) =>
                        Count(sock'[w].inbox, Message(cast'[b].id, b)) = 1
          /\ (cast[b].pc = "sending" /\ cast'[b].pc = "raised") =>
                cast'[b].failed # <<>>]_vars

\* C23: during a run the parameters of a job only grow: every key the record's
\* parameters hold before a step of the run (the keys sent with the creation
\* request, the keys a phase has written) is still there after the step with
\* the same value, the step that adds the error key included.
ParametersAppendOnly ==
    [][\A id \in DOMAIN analysis :
          id \in DOMAIN analysis' =>
              \A k \in DOMAIN OrEmpty(analysis[id].parameters) :
                  /\ k \in DOMAIN OrEmpty(analysis'[id].parameters)
                  /\ OrEmpty(analysis'[id].parameters)[k] =
                         OrEmpty(analysis[id].parameters)[k]]_vars

\* C24: every step that changes the status, the progress or the parameters of
\* a job record sets its updated_at to the time of the step.
UpdatedAtRefreshed ==
    [][\A id \in DOMAIN analysis :
          ( /\ id \in DOMAIN analysis'
            /\ \/ analysis'[id].status # analysis[id].status
               \/ analysis'[id].progress # analysis[id].progress
               \/ analysis'[id].parameters # analysis[id].parameters ) =>
              analysis'[id].updated_at = now']_vars

\* the stored record of a job whose run is in flight
RunInFlight(id) ==
    /\ id \in analyses
    /\ analysis[id].status \in {"pending", "researching", "analyzing"}

\* C22: while the stored record of a job has status pending, researching or
\* analyzing, a step changes its status, progress or parameters only if it
\* is a step of the job's own process_analysis task; an update request
\* served during the run changes none of them.
OnlyRunChangesRecord ==
    [][\A id \in JobIds :
          ( /\ RunInFlight(id)
            /\ id \in DOMAIN analysis'
            /\ \/ analysis'[id].status # analysis[id].status
               \/ analysis'[id].progress # analysis[id].progress
               \/ analysis'[id].parameters # analysis[id].parameters ) =>
              /\ id \in DOMAIN pc /\ id \in DOMAIN pc'
              /\ pc'[id] # pc[id]]_vars

\* C25: the ids create_analysis has assigned are strictly increasing in the
\* order of assignment (so pairwise distinct), whatever deletes and restarts
\* of the application happened in between.
IdsStrictlyIncrease ==
    \A i, j \in 1..Len(issued) : i < j => issued[i] < issued[j]

\* a creation step stores a pending record under the assigned id, launches
\* the run and returns the record
CreateStoresPending ==
    [][(Len(issued') = Len(issued) + 1) =>
          LET id == issued'[Len(issued')] IN
              /\ id \in analyses'
              /\ analysis'[id].id = id
              /\ analysis'[id].status = "pending"
              /\ analysis'[id].progress = 0
              /\ id \in DOMAIN storage' /\ storage'[id] = analysis'[id]
              /\ pc'[id] = "start"
              /\ response' = Returned("create", id, <<analysis'[id]>>)]_vars

\* what a caller of create_analysis holds is a pending record
CreatedShowsPending ==
    response.op = "create" =>
        /\ response.code = 200
        /\ response.body[1].id = response.id
        /\ response.body[1].status = "pending"
        /\ response.body[1].progress = 0

\* C26: a creation request stores under the id it assigns a record with
\* status pending and progress 0.0, launches the run for it and returns that
\* record; what the caller has received shows status pending and progress 0.0
\* also once the run has moved the stored record on.
CreateReturnsPending == CreateStoresPending /\ []CreatedShowsPending

\* a caller holds the pending record of a job whose run has moved the stored
\* record on
CreatedShowsPendingWitness ==
    /\ response.op = "create"
    /\ response.id \in analyses
    /\ analysis[response.id].status \in {"analyzing", "completed", "failed"}
    /\ pc[response.id] # "start"

\* C27: a get, update or delete request for an id that is not a key of the
\* store is answered with the 404 "Analysis not found" error, and a request
\* answered so leaves the store, every record, the file and the id counter as
\* they were.
NotFoundChangesNothing ==
    [][(served' = served + 1 /\ response'.op \in {"get", "update", "delete"}) =>
          /\ response'.id \notin analyses =>
                /\ response'.code = 404
                /\ response'.detail = "Analysis not found"
          /\ response'.code = 404 =>
                /\ response'.id \notin analyses
                /\ UNCHANGED <<analyses, analysis, storage, current_id, pc>>]_vars

\* the store holds a job and a request for another id was answered with 404
NotFoundWitness ==
    /\ response.code = 404
    /\ analyses # {}
    /\ response.id \notin analyses
    /\ response.op = "update"

\* C28: a call of generate_report gives a report only for an analysis that
\* exists and has status completed; for a missing analysis it raises
\* ValueError "Analysis <id> not found", for an analysis in any other status
\* ValueError "Analysis <id> is not completed", and a call that raises gives
\* no report.
ReportOnlyWhenCompleted ==
    report.call # <<>> =>
        LET id == report.call[1] IN
            /\ report.raised = "" =>
                  /\ id \in DOMAIN db
                  /\ db[id].status = "completed"
                  /\ report.value[1].analysis_id = id
            /\ id \notin DOMAIN db =>
                  /\ report.raised = "ValueError"
                  /\ report.value = <<"Analysis ", id, " not found">>
            /\ (id \in DOMAIN db /\ db[id].status # "completed") =>
                  /\ report.raised = "ValueError"
                  /\ report.value = <<"Analysis ", id, " is not completed">>

\* a report was refused for a failed analysis that has results
ReportRefusedWitness ==
    /\ report.call # <<>>
    /\ report.call[1] \in DOMAIN db
    /\ db[report.call[1]].status = "failed"
    /\ ~Falsy(db[report.call[1]].results)
    /\ report.raised = "ValueError"

\* C30: a call of get_template with a customize argument leaves the stored
\* template as it was: the row, and the parameters and the prompts it refers
\* to, have after the call the values they had before it; and when the
\* argument appends prompts, the prompts returned are the stored prompts
\* followed by the custom prompts.
CustomizeKeepsStored ==
    [][\A id \in DOMAIN templates :
          /\ id \in DOMAIN templates' /\ templates'[id] = templates[id]
          /\ heap'[templates[id].parameters] = heap[templates[id].parameters]
          /\ heap'[templates[id].prompts] = heap[templates[id].prompts]
          /\ ( /\ template_data'.call # <<>>
               /\ template_data'.call[1] = id
               /\ Truthy(template_data'.call[2])
               /\ "prompts" \in DOMAIN template_data'.call[2][1]
               /\ Get(template_data'.call[2][1], "append_prompts", FALSE) ) =>
                 /\ template_data'.raised = ""
                 /\ heap'[template_data'.value[1].prompts] =
                        heap[templates[id].prompts]
                            \o template_data'.call[2][1].prompts]_vars

\* a call that overrode a stored parameter and appended a prompt has
\* returned, and the stored template still has its own values
CustomizeKeepsStoredWitness ==
    /\ template_data.call # <<>>
    /\ template_data.raised = ""
    /\ heap[template_data.value[1].parameters] =
           [max_tokens |-> 2000, depth |-> "brief"]
    /\ heap[RefParameters] = [max_tokens |-> 1000, depth |-> "brief"]
    /\ heap[template_data.value[1].prompts] = <<"p1", "p2", "custom">>
    /\ heap[RefPrompts] = <<"p1", "p2">>

\* a talking client whose peer is up
Talking(w) == sock[w].client = "open" /\ sock[w].sent >= 1

\* every frame a client has sent is answered on its socket, unless the
\* client goes away
EchoArrives ==
    \A w \in ClientIds : \A n \in 1..MaxFrames :
        (sock[w].sent >= n) ~>
            \/ Count(sock[w].inbox, EchoText(sock[w].id, n)) = 1
            \/ sock[w].client # "open"

\* a client that has sent a frame and is still up is registered under its
\* id, its endpoint is in the receive loop, and no frame is answered twice
StaysRegistered ==
    \A w \in ClientIds :
        Talking(w) =>
            /\ Contains(Listed(active_connections, sock[w].id), w)
            /\ sock[w].pc \in {"receiving", "echoing"}
            /\ sock[w].app = "connected"
            /\ \A n \in 1..MaxFrames :
                  Count(sock[w].inbox, EchoText(sock[w].id, n)) <= 1

\* a broadcast for the id that returns, and during which no other task
\* changed the list, has delivered its event once to every such client
LaterUpdates ==
    [][\A b \in CastIds :
          (cast[b].pc = "sending" /\ cast'[b].pc = "returned" /\ cast'[b].alone) =>
              \A w \in ClientIds :
                  ( /\ Contains(cast'[b].first, w)
                    /\ sock'[w].client = "open"
                    /\ sock'[w].sent >= 1 ) =>
                      Count(sock'[w].inbox, Message(cast'[b].id, b)) = 1]_vars

\* C29: with the endpoint of main.py, a client that is registered on
\* /ws/{analysis_id}, has received the initial message and sends a text
\* frame receives an answer to it on its own socket; as long as it stays
\* connected it stays registered under the id with its endpoint in the
\* receive loop, and a later broadcast for the id reaches it.
ClientAnsweredAndKept == EchoArrives /\ []StaysRegistered /\ LaterUpdates

\* a client has received the initial message, the answer to its frame and
\* then a broadcast, and is still registered
ClientAnsweredWitness ==
    /\ sock[1].inbox = <<ConnectionStatus("42"), EchoText("42", 1), Message("42", 1)>>
    /\ Contains(Listed(active_connections, "42"), 1)
    /\ sock[1].client = "open"

----------------------------------------------------------------------------
(* app/api/v1/analysis.py: the runs under the scheduling of the loop *)

\* a provider call that never answers: the client call in
\* get_initial_research or analyze_data has no timeout of its own, and
\* process_analysis puts none around the await
ProviderHangs(id) ==
    /\ proc = "api"
    /\ id \in DOMAIN pc /\ pc[id] \in {"research", "analysis"}
    /\ pc' = [pc EXCEPT ![id] = "hung"]
    /\ UNCHANGED <<cacheVars, docVars, restVars, proc, analyses, analysis, storage, current_id,
                   research_data, calls, status_seq, request, now, serviceVars,
                   events, hubVars>>

NextLive ==
    \/ \E p \in RestParameters : create_analysis(p)
    \/ \E id \in JobIds : StartResearch(id)
    \/ \E id \in JobIds : ResearchReturns(id, <<"ok">>)
    \/ \E id \in JobIds : ResearchRaises(id, <<"timeout">>)
    \/ \E id \in JobIds : AnalysisReturns(id, <<"insights">>)
    \/ \E id \in JobIds : AnalysisRaises(id, <<"timeout">>)
    \/ \E id \in JobIds : ProviderHangs(id)

InitLive == Init /\ proc = "api"

\* the loop runs a task that asyncio.create_task has scheduled, and resumes a
\* task when the call it awaits has come to its end: a result, an exception,
\* or the call never answering
SpecLive ==
    /\ InitLive
    /\ [][NextLive]_vars
    /\ \A id \in JobIds :
          /\ WF_vars(StartResearch(id))
          /\ WF_vars(\/ ResearchReturns(id, <<"ok">>)
                     \/ ResearchRaises(id, <<"timeout">>)
                     \/ AnalysisReturns(id, <<"insights">>)
                     \/ AnalysisRaises(id, <<"timeout">>)
                     \/ ProviderHangs(id))

----------------------------------------------------------------------------
(* Properties of the runs under the scheduling of the loop *)

Launched(id) == id \in DOMAIN pc
Terminal(id) == id \in analyses /\ analysis[id].status \in {"completed", "failed"}
Blocked(id) == id \in DOMAIN pc /\ pc[id] = "hung"

\* C31: under the scheduling of the loop every run that create_analysis has
\* launched brings its record to status completed or failed, unless a
\* provider call of that run never answers; a run whose record is not
\* terminal is then blocked in that call
RunEnds ==
    \A id \in JobIds : Launched(id) ~> (Terminal(id) \/ Blocked(id))

\* one run has ended in each way while another is blocked in a provider call
RunEndsWitness ==
    \E i, j \in JobIds :
        /\ Launched(i) /\ Terminal(i) /\ pc[i] = "done"
        /\ Launched(j) /\ Blocked(j) /\ ~Terminal(j)

----------------------------------------------------------------------------
(* Properties of several jobs in one store *)

\* the fields of a record that a run writes
SameFields(a, b) ==
    /\ a.status = b.status
    /\ a.progress = b.progress
    /\ a.parameters = b.parameters

\* the task of id `a` takes a step (create_analysis launches it, a restart
\* ends it: neither is a step of the run)
RunStep(a) == a \in DOMAIN pc /\ a \in DOMAIN pc' /\ pc'[a] # pc[a]

\* C32: with several jobs in the store, a step of the run of one job, its
\* save_analyses of the whole dict and its except handler included, leaves
\* the status, progress and parameters of every other job as they were, in
\* `analyses` and in the storage file, and neither adds nor removes another
\* job's record
RunStepsKeepOthers ==
    [][\A a \in JobIds : RunStep(a) =>
          \A j \in JobIds \ {a} :
              /\ (j \in analyses) <=> (j \in analyses')
              /\ (j \in DOMAIN storage) <=> (j \in DOMAIN storage')
              /\ j \in analyses => SameFields(analysis[j], analysis'[j])
              /\ j \in DOMAIN storage => SameFields(storage[j], storage'[j])]_vars

\* two runs have gone through all their steps side by side, one to completed
\* and one to failed, and the file holds both outcomes
RunStepsKeepOthersWitness ==
    \E a, j \in JobIds :
        /\ a # j
        /\ a \in DOMAIN pc /\ pc[a] = "done"
        /\ j \in DOMAIN pc /\ pc[j] = "done"
        /\ a \in DOMAIN storage /\ storage[a].status = "completed"
        /\ j \in DOMAIN storage /\ storage[j].status = "failed"
        /\ analysis[a].status = "completed" /\ analysis[j].status = "failed"

----------------------------------------------------------------------------
(* app/api/v1/analysis.py: the process stopping inside save_analyses *)

\* the module-level load of a file json.load cannot parse (an empty file, or
\* a prefix of the JSON text): the except branch, `analyses = {}`
LoadFailed == <<>>

\* the process is stopped while a step of the task of `id` is in
\* save_analyses, after open(STORAGE_FILE, 'w') has truncated the file and
\* before the text of json.dump has reached it, and is started again: the
\* import finds a file it cannot parse. The file stays as it is until the
\* next save_analyses; what a load reads from it is the empty dict
StopInSave(id) ==
    /\ proc = "crash"
    /\ boots < MaxBoots
    /\ id \in DOMAIN pc /\ pc[id] \in {"start", "research", "analysis"}
    /\ id \in analyses
    /\ boots' = boots + 1
    /\ storage' = LoadFailed
    /\ analysis' = LoadFailed
    /\ analyses' = DOMAIN LoadFailed
    /\ current_id' = NextId(DOMAIN LoadFailed)
    /\ pc' = <<>>
    /\ research_data' = <<>>
    /\ calls' = <<>>
    /\ status_seq' = <<>>
    /\ request' = <<>>
    /\ response' = NoResponse
    /\ UNCHANGED <<cacheVars, docVars, issued, served, proc, now, serviceVars, events, hubVars>>

NextCrash ==
    \/ \E p \in RestParameters : create_analysis(p)
    \/ \E id \in JobIds : StartResearch(id)
    \/ \E id \in JobIds : ResearchReturns(id, <<"ok">>)
    \/ \E id \in JobIds : ResearchRaises(id, <<"timeout">>)
    \/ \E id \in JobIds : AnalysisReturns(id, <<"insights">>)
    \/ \E id \in JobIds : AnalysisRaises(id, <<"timeout">>)
    \/ Restart
    \/ \E id \in JobIds : StopInSave(id)

InitCrash ==
    /\ proc = "crash"
    /\ analyses = {}
    /\ analysis = <<>>
    /\ storage = <<>>
    /\ current_id = 1
    /\ pc = <<>>
    /\ research_data = <<>>
    /\ calls = <<>>
    /\ status_seq = <<>>
    /\ request = <<>>
    /\ now = 0
    /\ response = NoResponse
    /\ issued = <<>>
    /\ boots = 0
    /\ served = 0
    /\ DocIdle
    /\ CacheIdle
    /\ db = <<>>
    /\ run = [r \in 1..MaxRuns |-> IdleRun]
    /\ events = <<>>
    /\ HubIdle

SpecCrash == InitCrash /\ [][NextCrash]_vars

----------------------------------------------------------------------------
(* Properties of the storage file across a stop of the process *)

\* the process has been stopped and started again
Stopped == boots' # boots

\* the task of `id` has made at least one transition and its record is in
\* the store
Transitioned(id) == id \in DOMAIN pc /\ pc[id] # "start" /\ id \in analyses

\* C33: when the process stops during a run and the store is loaded from the
\* storage file again, the record of the run is there with the status,
\* progress and parameters of the last transition the run had made
ReloadKeepsLastTransition ==
    [][Stopped =>
          \A id \in JobIds : Transitioned(id) =>
              /\ id \in analyses'
              /\ SameFields(analysis'[id], analysis[id])]_vars

----------------------------------------------------------------------------
(* Properties of delete_analysis *)

\* the id was created in this process and delete_analysis has removed it
Deleted(id) == id \in DOMAIN pc /\ id \notin analyses

----------------------------------------------------------------------------
(* Properties of the websocket endpoints' exits *)

\* the websocket_endpoint task of websocket w is over: it has returned, or
\* an exception has left it
EndpointOver(w) == proc = "endpoint" /\ sock[w].pc \in {"returned", "crashed"}

\* websocket w is in a list of active_connections
Registered(w) ==
    \E id \in DOMAIN active_connections : Contains(active_connections[id], w)

\* C35: once the websocket_endpoint task of a websocket is over, whichever
\* way it ended, the websocket is in no list of active_connections
EndpointLeavesNothing ==
    \A w \in SocketIds : EndpointOver(w) => ~Registered(w)

----------------------------------------------------------------------------
(* Properties of ConnectionManager.disconnect *)

\* the task of websocket w calls manager.disconnect(w, id) in this step
CallsDisconnect(w) == sock[w].left = "" /\ sock'[w].left # ""

\* C36: a call of disconnect(websocket, id) for a websocket that is not in
\* the list of id returns normally and leaves active_connections as it is,
\* whether or not the id has a list with other websockets in it
DisconnectUnregistered ==
    [][\A w \in SocketIds :
          (/\ CallsDisconnect(w)
           /\ ~Contains(Listed(active_connections, sock'[w].id), w)) =>
              /\ sock'[w].left = "returned"
              /\ active_connections' = active_connections]_vars

----------------------------------------------------------------------------
(* Properties of the hub with several analysis ids *)

\* every analysis_update frame a peer has received is of the id its
\* websocket was connected under
DeliveredOwnId ==
    \A w \in SocketIds : \A k \in DOMAIN sock[w].inbox :
        sock[w].inbox[k].id = sock[w].id

\* this step belongs to an operation for id x: the task of a websocket of
\* that path moves (connect, disconnect), or a broadcast_to_analysis call
\* for x starts, sends or returns
ActsFor(x) ==
    \/ \E w \in SocketIds : sock'[w].pc # sock[w].pc /\ sock'[w].id = x
    \/ \E b \in CastIds :
          /\ cast'[b].id = x
          /\ cast'[b].pc # cast[b].pc \/ cast'[b].i # cast[b].i

\* connect, disconnect and broadcast for one id leave the list of every
\* other id as it is
OtherListsKept ==
    [][\A x \in PathIds : ~ActsFor(x) =>
          /\ (x \in DOMAIN active_connections') <=> (x \in DOMAIN active_connections)
          /\ Listed(active_connections', x) = Listed(active_connections, x)]_vars

\* C37: the hub keeps the ids apart: a broadcast for one id reaches no
\* websocket that is registered under another id only, and connect,
\* disconnect and broadcast for an id change no other id's list
HubKeepsIdsApart == []DeliveredOwnId /\ OtherListsKept

\* a broadcast for one id has returned after delivering to that id's
\* websocket, while a websocket registered under the other id has received
\* its connection status only
HubKeepsIdsApartWitness ==
    \E v, w \in SocketIds : \E b \in CastIds :
        /\ sock[v].id # sock[w].id
        /\ Registered(v) /\ Registered(w)
        /\ cast[b].pc = "returned" /\ cast[b].id = sock[v].id
        /\ Contains(cast[b].ok, v)
        /\ Contains(sock[v].inbox, Message(sock[v].id, b))
        /\ sock[w].inbox = <<ConnectionStatus(sock[w].id)>>

----------------------------------------------------------------------------
(* app/core/performance.py: cache_with_metrics. Each call of the wrapped
   function is a task; the awaits of the wrapper (cache.get, the function,
   cache.set) are the points where the other calls run. cache.get and
   cache.set may raise (the cache server cannot be reached); the function
   may return any of its results or raise. *)

\* the arguments the wrapped function is called with: the cache key is
\* f"{func.__name__}:{str(args)}:{str(kwargs)}", one key per argument
CallArgs == { 1, 2 }
\* what the wrapped function may return
FuncResults == { <<"r1">>, <<"r2">> }

CallIds == 1..MaxCalls

\* the frame of a step of the wrapper
WrapperStep(c, next) ==
    /\ wrapper' = [wrapper EXCEPT ![c] = next]
    /\ UNCHANGED <<docVars, restVars, proc, apiVars, now, serviceVars, events,
                   hubVars>>

\* the wrapped function is called: the wrapper builds the key and awaits
\* cache.get(cache_key)
CallWrapped(c, args) ==
    /\ proc = "cache"
    /\ wrapper[c].pc = "idle"
    /\ \A b \in 1..(c - 1) : wrapper[b].pc # "idle"
    /\ WrapperStep(c, [wrapper[c] EXCEPT !.pc = "get", !.key = args])
    /\ UNCHANGED cache

\* cache.get returns: a value (the wrapper records a hit and returns it) or
\* None (it records a miss and awaits the function)
GetReturns(c) ==
    /\ proc = "cache"
    /\ wrapper[c].pc = "get"
    /\ WrapperStep(c, IF wrapper[c].key \in DOMAIN cache
                      THEN [wrapper[c] EXCEPT !.pc = "returned", !.hit = TRUE,
                                              !.value = cache[wrapper[c].key]]
                      ELSE [wrapper[c] EXCEPT !.pc = "func"])
    /\ UNCHANGED cache

\* cache.get raises: the except handler awaits the function
GetRaises(c) ==
    /\ proc = "cache"
    /\ wrapper[c].pc = "get"
    /\ WrapperStep(c, [wrapper[c] EXCEPT !.pc = "handler"])
    /\ UNCHANGED cache

\* `result = await func(*args, **kwargs)` returns: the wrapper awaits
\* cache.set(cache_key, result, expire=expire)
FuncReturns(c, result) ==
    /\ proc = "cache"
    /\ wrapper[c].pc = "func"
    /\ WrapperStep(c, [wrapper[c] EXCEPT !.pc = "set", !.runs = @ + 1,
                                         !.value = result])
    /\ UNCHANGED cache

\* `result = await func(*args, **kwargs)` raises: the same except handler
\* catches it and awaits the function again
FuncRaises(c) ==
    /\ proc = "cache"
    /\ wrapper[c].pc = "func"
    /\ WrapperStep(c, [wrapper[c] EXCEPT !.pc = "handler", !.runs = @ + 1])
    /\ UNCHANGED cache

\* cache.set returns: the entry is stored and the wrapper returns the result
SetReturns(c) ==
    /\ proc = "cache"
    /\ wrapper[c].pc = "set"
    /\ cache' = Set(cache, wrapper[c].key, wrapper[c].value)
    /\ WrapperStep(c, [wrapper[c] EXCEPT !.pc = "returned"])

\* cache.set raises: the except handler awaits the function again
SetRaises(c) ==
    /\ proc = "cache"
    /\ wrapper[c].pc = "set"
    /\ WrapperStep(c, [wrapper[c] EXCEPT !.pc = "handler", !.value = <<>>])
    /\ UNCHANGED cache

\* the except handler, `return await func(*args, **kwargs)`, returns
HandlerReturns(c, result) ==
    /\ proc = "cache"
    /\ wrapper[c].pc = "handler"
    /\ WrapperStep(c, [wrapper[c] EXCEPT !.pc = "returned", !.runs = @ + 1,
                                         !.value = result])
    /\ UNCHANGED cache

\* the function raises in the except handler: the exception leaves the wrapper
HandlerRaises(c) ==
    /\ proc = "cache"
    /\ wrapper[c].pc = "handler"
    /\ WrapperStep(c, [wrapper[c] EXCEPT !.pc = "raised", !.runs = @ + 1])
    /\ UNCHANGED cache

NextCache ==
    \/ \E c \in CallIds, args \in CallArgs : CallWrapped(c, args)
    \/ \E c \in CallIds : GetReturns(c)
    \/ \E c \in CallIds : GetRaises(c)
    \/ \E c \in CallIds, result \in FuncResults : FuncReturns(c, result)
    \/ \E c \in CallIds : FuncRaises(c)
    \/ \E c \in CallIds : SetReturns(c)
    \/ \E c \in CallIds : SetRaises(c)
    \/ \E c \in CallIds, result \in FuncResults : HandlerReturns(c, result)
    \/ \E c \in CallIds : HandlerRaises(c)

InitCache ==
    /\ proc = "cache"
    /\ analyses = {}
    /\ analysis = <<>>
    /\ storage = <<>>
    /\ current_id = 1
    /\ pc = <<>>
    /\ research_data = <<>>
    /\ calls = <<>>
    /\ status_seq = <<>>
    /\ request = <<>>
    /\ now = 0
    /\ response = NoResponse
    /\ issued = <<>>
    /\ boots = 0
    /\ served = 0
    /\ DocIdle
    /\ CacheIdle
    /\ db = <<>>
    /\ run = [r \in 1..MaxRuns |-> IdleRun]
    /\ events = <<>>
    /\ HubIdle

SpecCache == InitCache /\ [][NextCache]_vars

----------------------------------------------------------------------------
(* Properties of cache_with_metrics *)

\* C38: in each call of a function wrapped by cache_with_metrics the function
\* is executed once at most, and not at all when cache.get gave a value,
\* also when cache.get or cache.set raises and when the function raises
ExecutedOnceAtMost ==
    \A c \in CallIds :
        /\ wrapper[c].runs <= 1
        /\ wrapper[c].hit => wrapper[c].runs = 0

============================================================================
